---------------------------- MODULE Spec2Model ----------------------------
(***************************************************************************)
(* Model of the crop-calendar / monthly-sequence derivation functions of   *)
(* NBS_TP (src/functions/*.py).                                            *)
(*                                                                         *)
(* A date is the Python string "YYYY-MM".  A string is modelled as the     *)
(* sequence of its characters, a character as a number that keeps the      *)
(* order of the ASCII codes: the digit d is d and '-' is Dash, which is    *)
(* smaller than every digit ('-' is 45, '0' is 48).  Python's <= on        *)
(* strings is StrLeq, int() is ParseInt, str.split('-') is SplitYear and        *)
(* SplitMonth.                                                             *)
(*                                                                         *)
(* A calendar (a DataFrame) is the sequence of its rows, a row the record  *)
(* of its columns.  A Series with the default index is a sequence.         *)
(* Carbon amounts are counted in a unit in which the values the model      *)
(* feeds are multiples of 6, so that V/2.0 and V/6.0 are exact.            *)
(***************************************************************************)
EXTENDS Integers, Sequences, FiniteSets, TLC

VARIABLES
    entry,            \* which kind of input the caller holds
    crop_calendar,    \* the calendar passed by the caller
    crop_sequence,    \* the monthly crop-code sequence passed by the caller
    series,           \* the monthly carbon-input series passed by the caller
    start_date,       \* create_crop_calendar's start_date argument
    n_duplications,   \* duplicate_crop_calendar's n_duplications argument
    climate_df,       \* build_climate_sequence_from_calendar's climate table
    fym_mean,         \* create_fym_sequence's fym_mean argument
    target_crop,      \* create_fym_sequence's target_crop argument
    calls,            \* the functions called so far, in order
    rets,             \* what each call returned (or the exception it raised)
    stdout,           \* the dates of the warnings printed by the last call
    data_dir,         \* the files of the data folder, by name
    scenario,         \* the arguments of the last call of CreateRothCDataIn
    iteration,        \* main.py: where each run of the scenario loop stands
    invocations,      \* main.py: the runs of the external model so far
    sweep_raised,     \* main.py: the exception that left the loop, if any
    scan              \* a block-scanning while loop: its array, index and position

vars == << entry, crop_calendar, crop_sequence, series, start_date,
           n_duplications, climate_df, fym_mean, target_crop,
           calls, rets, stdout, data_dir, scenario,
           iteration, invocations, sweep_raised, scan >>

-----------------------------------------------------------------------------
(* Bounds of the model *)

MaxPeriods == 2      \* rows of an input calendar
MaxDup == 2          \* n_duplications
MaxLen == 8          \* months of an input crop sequence
MaxSeries == 6       \* months of an input carbon series
MaxRuns == 3         \* runs of a long input crop sequence
MaxFailures == 1     \* failed runs of the external model in a sweep
MaxMonths == 2       \* months of the climate series passed to the PET function
MaxShort == 4        \* months of a short input crop sequence

-----------------------------------------------------------------------------
(* Python strings and numbers *)

Dash == 0 - 1

\* np.nan, a value no carbon amount, climate value or crop code takes
NaN == 0 - 999

\* pd.isna(x)
IsNa(x) == x = NaN

\* a == b on floats: nan equals nothing, itself included
FloatEq(a, b) == a # NaN /\ b # NaN /\ a = b

RECURSIVE Digits(_)
\* str(n) for n >= 0
Digits(n) == IF n < 10 THEN << n >> ELSE Digits(n \div 10) \o << n % 10 >>

\* f"{m:02d}"
Pad2(m) == IF m < 10 THEN << 0, m >> ELSE Digits(m)

\* f"{year}-{month:02d}", and strftime('%Y-%m') for a year of four digits
FormatYM(year, month) == Digits(year) \o << Dash >> \o Pad2(month)

RECURSIVE ParseInt(_)
\* int(s) for a string of digits
ParseInt(s) == IF Len(s) = 0 THEN 0
              ELSE 10 * ParseInt(SubSeq(s, 1, Len(s) - 1)) + s[Len(s)]

\* position of the first '-' of s (Len(s) + 1 when there is none)
DashPos(s) ==
    IF \E k \in 1..Len(s) : s[k] = Dash
    THEN CHOOSE k \in 1..Len(s) : s[k] = Dash /\ \A h \in 1..(k - 1) : s[h] # Dash
    ELSE Len(s) + 1

\* x.split('-')[0] and x.split('-')[1] of a string with one '-'
SplitYear(s) == SubSeq(s, 1, DashPos(s) - 1)
SplitMonth(s) == SubSeq(s, DashPos(s) + 1, Len(s))

\* a character that is neither a digit nor '-', and sorts after the digits
Letter == 10

\* int(s) returns: s is a string of digits (of the characters modelled)
IsDigits(s) == Len(s) > 0 /\ \A k \in 1..Len(s) : s[k] \in 0..9

\* "year, month = map(int, s.split('-'))" returns: two parts, both integers;
\* it raises ValueError otherwise
ParsesYM(s) ==
    /\ Cardinality({ k \in 1..Len(s) : s[k] = Dash }) = 1
    /\ IsDigits(SplitYear(s))
    /\ IsDigits(SplitMonth(s))

\* year, month = map(int, s.split('-'))
ParseYM(s) == [year |-> ParseInt(SplitYear(s)), month |-> ParseInt(SplitMonth(s))]

RECURSIVE StrLeq(_, _)
\* a <= b on Python strings (lexicographic, a proper prefix is smaller)
StrLeq(a, b) ==
    IF Len(a) = 0 THEN TRUE
    ELSE IF Len(b) = 0 THEN FALSE
    ELSE IF a[1] < b[1] THEN TRUE
    ELSE IF a[1] > b[1] THEN FALSE
    ELSE StrLeq(Tail(a), Tail(b))

Max(a, b) == IF a >= b THEN a ELSE b

\* f'Rotation {k}'
RotationLabel(k) == "Rotation " \o ToString(k)

-----------------------------------------------------------------------------
(* What a call gives back: a value, or the exception it raised *)

Return(v) == [raised |-> "none", value |-> v]
Raise(e) == [raised |-> e, value |-> << >>]

-----------------------------------------------------------------------------
(* CropCalendar2CropSequence.py *)

\* (end_year - start_year) * 12 + (end_month - start_month) + 1
TotalMonths(start, end) ==
    (end.year - start.year) * 12 + (end.month - start.month) + 1

RECURSIVE FindCropLastMatch(_, _, _)
\* FindCrop without the break: the last matching row wins
FindCropLastMatch(cal, r, current_date_str) ==
    IF r > Len(cal) THEN 0
    ELSE LET later == FindCropLastMatch(cal, r + 1, current_date_str)
         IN  IF later # 0 THEN later
             ELSE IF /\ StrLeq(cal[r].Start_Date, current_date_str)
                     /\ StrLeq(current_date_str, cal[r].End_Date)
                  THEN r
                  ELSE 0

RECURSIVE FindCrop(_, _, _)
\* the inner loop over crop_calendar.iterrows(): the first row r, from row
\* r on, with period_start <= current_date_str <= period_end; 0 when the
\* loop ends without a break
FindCrop(cal, r, current_date_str) ==
    IF r > Len(cal) THEN 0
    ELSE IF /\ StrLeq(cal[r].Start_Date, current_date_str)
            /\ StrLeq(current_date_str, cal[r].End_Date)
         THEN r
         ELSE FindCrop(cal, r + 1, current_date_str)

\* the code appended when no period is found
BareSoil == 1

\* (current_year, current_month) at the start of iteration month_idx
\* (counted from 0): the start month moved month_idx times by
\* "current_month += 1; if current_month > 12: current_month = 1; current_year += 1"
CurrentDate(start, month_idx) ==
    [year |-> start.year + ((start.month - 1 + month_idx) \div 12),
     month |-> ((start.month - 1 + month_idx) % 12) + 1]

\* f"{current_year}-{current_month:02d}" of iteration month_idx
CurrentDateStr(start, month_idx) ==
    LET current == CurrentDate(start, month_idx)
    IN  FormatYM(current.year, current.month)

\* what iteration month_idx appends: the crop of the row found, BareSoil
\* when none is
CropOfMonth(cal, start, month_idx) ==
    LET r == FindCrop(cal, 1, CurrentDateStr(start, month_idx))
    IN  IF r # 0 THEN cal[r].Crop ELSE BareSoil

\* MonthLoop that warns on "crop_sequence[-1] == 1" instead of "not crop_found"
MonthLoopWarnBareSoil(cal, start, total_months) ==
    [ret |-> Return([k \in 1..total_months |-> CropOfMonth(cal, start, k - 1)]),
     warnings |->
        SelectSeq([k \in 1..total_months |-> CurrentDateStr(start, k - 1)],
                  LAMBDA d : \/ FindCrop(cal, 1, d) = 0
                             \/ cal[FindCrop(cal, 1, d)].Crop = BareSoil)]

\* the loop over range(total_months): the codes appended, and the dates of
\* the warnings printed ("if not crop_found")
MonthLoop(cal, start, total_months) ==
    [ret |-> Return([k \in 1..total_months |-> CropOfMonth(cal, start, k - 1)]),
     warnings |->
        SelectSeq([k \in 1..total_months |-> CurrentDateStr(start, k - 1)],
                  LAMBDA d : FindCrop(cal, 1, d) = 0)]

\* crop_calendar_to_sequence with the span from the earliest Start_Date to
\* the latest End_Date of the calendar
CropCalendarToSequenceOfExtremes(cal) ==
    IF Len(cal) = 0
    THEN [ret |-> Raise("IndexError"), warnings |-> << >>]
    ELSE IF \E r \in 1..Len(cal) : ~ParsesYM(cal[r].Start_Date) \/ ~ParsesYM(cal[r].End_Date)
    THEN [ret |-> Raise("ValueError"), warnings |-> << >>]
    ELSE LET first == CHOOSE r \in 1..Len(cal) :
                        \A q \in 1..Len(cal) : StrLeq(cal[r].Start_Date, cal[q].Start_Date)
             last == CHOOSE r \in 1..Len(cal) :
                        \A q \in 1..Len(cal) : StrLeq(cal[q].End_Date, cal[r].End_Date)
             start == ParseYM(cal[first].Start_Date)
             end == ParseYM(cal[last].End_Date)
         IN  MonthLoop(cal, start, TotalMonths(start, end))

\* crop_calendar_to_sequence(crop_calendar): the sequence and the warnings
\* printed; iloc[0] of an empty calendar raises IndexError, and the first
\* row's Start_Date and the last row's End_Date are the dates it parses
crop_calendar_to_sequence(cal) ==
    IF Len(cal) = 0
    THEN [ret |-> Raise("IndexError"), warnings |-> << >>]
    ELSE IF ~ParsesYM(cal[1].Start_Date) \/ ~ParsesYM(cal[Len(cal)].End_Date)
    THEN [ret |-> Raise("ValueError"), warnings |-> << >>]
    ELSE LET start == ParseYM(cal[1].Start_Date)
             end == ParseYM(cal[Len(cal)].End_Date)
         IN  MonthLoop(cal, start, TotalMonths(start, end))

-----------------------------------------------------------------------------
(* DuplicateCropCalendar.py *)

\* each cycle is 8 years
CycleYears == 8

\* AddYears that adds one year less to the dates of the copies
AddYearsOneShort(x, years_to_add) ==
    Digits(ParseInt(SplitYear(x)) + Max(years_to_add - 1, 0)) \o << Dash >> \o SplitMonth(x)

\* f"{int(x.split('-')[0]) + years_to_add}-{x.split('-')[1]}"
AddYears(x, years_to_add) ==
    Digits(ParseInt(SplitYear(x)) + years_to_add) \o << Dash >> \o SplitMonth(x)

\* CalendarCopy without the line calendar_copy['Rotation'] = ...
CalendarCopyKeepLabel(cal, i) ==
    [r \in 1..Len(cal) |->
        [cal[r] EXCEPT !.Start_Date = AddYears(@, i * CycleYears),
                       !.End_Date = AddYears(@, i * CycleYears)]]

\* the copy made by iteration i of the first loop
CalendarCopy(cal, i) ==
    [r \in 1..Len(cal) |->
        [cal[r] EXCEPT !.Rotation = RotationLabel(i + 1),
                       !.Start_Date = AddYears(@, i * CycleYears),
                       !.End_Date = AddYears(@, i * CycleYears)]]

RECURSIVE ConcatCopies(_, _, _)
\* pd.concat of the copies i .. n_dup
ConcatCopies(cal, i, n_dup) ==
    IF i > n_dup THEN << >>
    ELSE CalendarCopy(cal, i) \o ConcatCopies(cal, i + 1, n_dup)

\* FillGap that extends the period to the next start itself
FillGapToNextStart(final_calendar, i) ==
    LET current == ParseYM(final_calendar[i].End_Date)
        next == ParseYM(final_calendar[i + 1].Start_Date)
    IN  IF next.year * 12 + next.month > current.year * 12 + current.month + 1
        THEN [final_calendar EXCEPT ![i].End_Date = FormatYM(next.year, next.month)]
        ELSE final_calendar

\* one iteration of the gap-filling loop, on row i (rows counted from 1)
FillGap(final_calendar, i) ==
    LET current == ParseYM(final_calendar[i].End_Date)
        next == ParseYM(final_calendar[i + 1].Start_Date)
        current_total_months == current.year * 12 + current.month
        next_total_months == next.year * 12 + next.month
        gap_end_month == IF next.month - 1 = 0 THEN 12 ELSE next.month - 1
        gap_end_year == IF next.month - 1 = 0 THEN next.year - 1 ELSE next.year
    IN  IF next_total_months > current_total_months + 1
        THEN [final_calendar EXCEPT ![i].End_Date = FormatYM(gap_end_year, gap_end_month)]
        ELSE final_calendar

RECURSIVE FillGapsSkipLast(_, _)
\* FillGaps over range(len(final_calendar) - 2): the last pair is not looked at
FillGapsSkipLast(final_calendar, i) ==
    IF i > Len(final_calendar) - 2 THEN final_calendar
    ELSE FillGapsSkipLast(FillGap(final_calendar, i), i + 1)

RECURSIVE FillGaps(_, _)
\* the gap-filling loop from row i on
FillGaps(final_calendar, i) ==
    IF i > Len(final_calendar) - 1 THEN final_calendar
    ELSE FillGaps(FillGap(final_calendar, i), i + 1)

\* the objects the first loop has written when it ends: calendar_copy =
\* crop_calendar.copy() is a new object at every iteration, and the column
\* assignments of lines 27-36 go to it; the caller's crop_calendar is only
\* read (final_calendar, which the second loop writes, is the new object
\* that pd.concat made)
ObjectsOfDuplicate(cal, n_dup) ==
    [crop_calendar |-> cal, calendar_copy |-> CalendarCopy(cal, n_dup)]

\* duplicate_crop_calendar with a second loop that also ends a period one
\* month before the next start when the two overlap
DuplicateResolvingOverlaps(cal, n_dup) ==
    LET filled == FillGaps(ConcatCopies(cal, 0, n_dup), 1)
        EndBefore(next) == IF next.month = 1 THEN FormatYM(next.year - 1, 12)
                           ELSE FormatYM(next.year, next.month - 1)
    IN  Return([r \in 1..Len(filled) |->
                  IF r < Len(filled)
                     /\ StrLeq(filled[r + 1].Start_Date, filled[r].End_Date)
                  THEN [filled[r] EXCEPT
                            !.End_Date = EndBefore(ParseYM(filled[r + 1].Start_Date))]
                  ELSE filled[r]])

\* duplicate_crop_calendar(crop_calendar, n_duplications)
duplicate_crop_calendar(cal, n_dup) ==
    Return(FillGaps(ConcatCopies(cal, 0, n_dup), 1))

-----------------------------------------------------------------------------
(* BuildClimateSequence.py *)

\* climate_df[(Year == current_year) & (Month == current_month)][variable_name]
ClimateValue(clim, current_year, current_month) ==
    SelectSeq(clim, LAMBDA rec : rec.Year = current_year /\ rec.Month = current_month)

\* ValueOfMonth with climate_value.iloc[-1]
ValueOfMonthLast(clim, start, month_idx) ==
    LET current == CurrentDate(start, month_idx)
        climate_value == ClimateValue(clim, current.year, current.month)
    IN  IF Len(climate_value) # 0 THEN climate_value[Len(climate_value)].Value ELSE NaN

\* what iteration month_idx appends: climate_value.iloc[0], np.nan when
\* climate_value is empty
ValueOfMonth(clim, start, month_idx) ==
    LET current == CurrentDate(start, month_idx)
        climate_value == ClimateValue(clim, current.year, current.month)
    IN  IF Len(climate_value) # 0 THEN climate_value[1].Value ELSE NaN

\* the loop over range(total_months): the values appended, and the dates of
\* the warnings printed ("if not climate_value.empty ... else")
ClimateLoop(clim, start, total_months) ==
    [ret |-> Return([k \in 1..total_months |-> ValueOfMonth(clim, start, k - 1)]),
     warnings |->
        SelectSeq([k \in 1..total_months |-> CurrentDateStr(start, k - 1)],
                  LAMBDA d : Len(ClimateValue(clim, ParseYM(d).year, ParseYM(d).month)) = 0)]

\* build_climate_sequence_from_calendar with end_date = crop_calendar.iloc[0]['End_Date']
BuildClimateFirstRowEnd(cal, clim) ==
    IF Len(cal) = 0
    THEN [ret |-> Raise("IndexError"), warnings |-> << >>]
    ELSE LET start == ParseYM(cal[1].Start_Date)
             end == ParseYM(cal[1].End_Date)
         IN  ClimateLoop(clim, start, TotalMonths(start, end))

\* build_climate_sequence_from_calendar(crop_calendar, climate_df, variable_name)
build_climate_sequence_from_calendar(cal, clim) ==
    IF Len(cal) = 0
    THEN [ret |-> Raise("IndexError"), warnings |-> << >>]
    ELSE IF ~ParsesYM(cal[1].Start_Date) \/ ~ParsesYM(cal[Len(cal)].End_Date)
    THEN [ret |-> Raise("ValueError"), warnings |-> << >>]
    ELSE LET start == ParseYM(cal[1].Start_Date)
             end == ParseYM(cal[Len(cal)].End_Date)
         IN  ClimateLoop(clim, start, TotalMonths(start, end))

-----------------------------------------------------------------------------
(* TransformAGBRothC.py *)

\* the name result_series before its first assignment
Unbound == [bound |-> FALSE, value |-> << >>]

\* result_series once assigned
Bound(v) == [bound |-> TRUE, value |-> v]

RECURSIVE BlockEndOneShort(_, _, _)
\* BlockEnd with the bound j + 1 < len(values) - 1: the last index is
\* never taken into a block
BlockEndOneShort(values, i, j) ==
    IF j + 1 <= Len(values) - 1 /\ FloatEq(values[j + 1], values[i])
    THEN BlockEndOneShort(values, i, j + 1)
    ELSE j

RECURSIVE BlockEnd(_, _, _)
\* while j + 1 < len(values) and values[j+1] == values[i]: j += 1
BlockEnd(values, i, j) ==
    IF j + 1 <= Len(values) /\ FloatEq(values[j + 1], values[i])
    THEN BlockEnd(values, i, j + 1)
    ELSE j

\* result_series.fillna(0)
FillNa(values) == [k \in 1..Len(values) |-> IF IsNa(values[k]) THEN 0 ELSE values[k]]

\* SpreadBlock with range(max(i, j-2), j): two previous indices get 1/6
SpreadBlockTwoBefore(values, i, j) ==
    LET block_value == values[i]
        zeroed == [k \in 1..Len(values) |-> IF k \in i..j THEN 0 ELSE values[k]]
        halved == [zeroed EXCEPT ![j] = block_value \div 2]
    IN  [k \in 1..Len(values) |->
            IF k \in Max(i, j - 2)..(j - 1) THEN block_value \div 6 ELSE halved[k]]

\* the assignments of one block [i, j]: all to 0, the last index gets half,
\* the three previous indices (if available) get 1/6
SpreadBlock(values, i, j) ==
    LET block_value == values[i]
        zeroed == [k \in 1..Len(values) |-> IF k \in i..j THEN 0 ELSE values[k]]
        halved == [zeroed EXCEPT ![j] = block_value \div 2]
    IN  [k \in 1..Len(values) |->
            IF k \in Max(i, j - 3)..(j - 1) THEN block_value \div 6 ELSE halved[k]]

RECURSIVE BlockLoop(_, _, _)
\* the while loop from index i on; result_series is assigned at the end of
\* the body of an iteration that found a block, and nowhere else
BlockLoop(values, i, result_series) ==
    IF i > Len(values) THEN result_series
    ELSE IF IsNa(values[i]) \/ values[i] = 0
         THEN BlockLoop(values, i + 1, result_series)
         ELSE LET j == BlockEnd(values, i, i)
                  spread == SpreadBlock(values, i, j)
              IN  BlockLoop(spread, j + 1, Bound(FillNa(spread)))

RECURSIVE ValuesAfterLoop(_, _)
\* the array values when the while loop, from index i on, has ended
ValuesAfterLoop(values, i) ==
    IF i > Len(values) THEN values
    ELSE IF IsNa(values[i]) \/ values[i] = 0
         THEN ValuesAfterLoop(values, i + 1)
         ELSE ValuesAfterLoop(SpreadBlock(values, i, BlockEnd(values, i, i)),
                              BlockEnd(values, i, i) + 1)

\* ObjectsOfTransform without line 10: values is the array of the caller's
\* series
ObjectsOfTransformWithoutCopy(ser) ==
    [series |-> ValuesAfterLoop(ser, 1), series_copy |-> ValuesAfterLoop(ser, 1)]

\* the objects the call has written when it returns: series = series.copy()
\* binds the local name to a new object, values is the array of that
\* object and lines 27-34 write to it; the caller's series is only read
ObjectsOfTransform(ser) ==
    [series |-> ser, series_copy |-> ValuesAfterLoop(ser, 1)]

\* transform_agb_rothc with range(j-3, j) in place of range(max(i, j-3), j):
\* the sixths of a run shorter than four months go to the months before it
TransformSpreadingBack(ser) ==
    LET result_series == BlockLoop(ser, 1, Unbound)
        IsEnd(j) == /\ ~IsNa(ser[j]) /\ ser[j] # 0
                    /\ j = Len(ser) \/ ~FloatEq(ser[j + 1], ser[j])
        Ends(k) == { j \in (k + 1)..(k + 3) : j <= Len(ser) /\ IsEnd(j) }
    IN  IF result_series.bound
        THEN Return([k \in 1..Len(ser) |->
                        IF IsEnd(k) \/ Ends(k) = {} THEN result_series.value[k]
                        ELSE ser[CHOOSE j \in Ends(k) : \A x \in Ends(k) : x <= j] \div 6])
        ELSE Raise("UnboundLocalError")

\* transform_agb_rothc(series): return result_series raises
\* UnboundLocalError when no iteration assigned it
transform_agb_rothc(ser) ==
    LET result_series == BlockLoop(ser, 1, Unbound)
    IN  IF result_series.bound THEN Return(result_series.value)
        ELSE Raise("UnboundLocalError")

-----------------------------------------------------------------------------
(* CreateFymSequence.py *)

\* TargetBlockEnd without i += 1: the scan of a block leaves the index where
\* the block starts
TargetBlockEndNotAdvancing(crop_values, i, target) == i

RECURSIVE TargetBlockEnd(_, _, _)
\* while i < len(crop_values) and crop_values[i] == target_crop: i += 1
TargetBlockEnd(crop_values, i, target) ==
    IF i <= Len(crop_values) /\ FloatEq(crop_values[i], target)
    THEN TargetBlockEnd(crop_values, i + 1, target)
    ELSE i

RECURSIVE CropBlocks(_, _, _)
\* the list crop_blocks of (block_start, block_end) built from index i on
CropBlocks(crop_values, i, target) ==
    IF i > Len(crop_values) THEN << >>
    ELSE IF FloatEq(crop_values[i], target)
         THEN LET after == TargetBlockEnd(crop_values, i, target)
              IN  << << i, after - 1 >> >> \o CropBlocks(crop_values, after, target)
         ELSE CropBlocks(crop_values, i + 1, target)

RECURSIVE ApplyFymBlockStart(_, _, _, _)
\* ApplyFym with block_start in place of block_end
ApplyFymBlockStart(fym_sequence, crop_blocks, block_number, mean) ==
    IF block_number > Len(crop_blocks) THEN fym_sequence
    ELSE IF block_number % 2 = 0
         THEN ApplyFymBlockStart([fym_sequence EXCEPT ![crop_blocks[block_number][1]] = mean],
                                 crop_blocks, block_number + 1, mean)
         ELSE ApplyFymBlockStart(fym_sequence, crop_blocks, block_number + 1, mean)

RECURSIVE ApplyFym(_, _, _, _)
\* the loop over enumerate(crop_blocks) from block_number on
ApplyFym(fym_sequence, crop_blocks, block_number, mean) ==
    IF block_number > Len(crop_blocks) THEN fym_sequence
    ELSE IF block_number % 2 = 0
         THEN ApplyFym([fym_sequence EXCEPT ![crop_blocks[block_number][2]] = mean],
                       crop_blocks, block_number + 1, mean)
         ELSE ApplyFym(fym_sequence, crop_blocks, block_number + 1, mean)

\* create_fym_sequence(crop_sequence, fym_mean, target_crop)
create_fym_sequence(seq, mean, target) ==
    Return(ApplyFym([k \in 1..Len(seq) |-> 0], CropBlocks(seq, 1, target), 1, mean))

-----------------------------------------------------------------------------
(* CreateCropCalendar.py *)

\* the dict crop_names (CreateRothCDataIn.py), as the set of its items
crop_names ==
    { << "Bare soil", 1 >>, << "Cover crop", 2 >>, << "Green dwarf bean", 3 >>,
      << "Maize", 4 >>, << "Potato", 5 >>, << "Sugar beet", 6 >>,
      << "Winter Wheat", 7 >>, << "Rapeseed", 8 >>, << "Cameline", 9 >>,
      << "Faba", 10 >>, << "Pea", 11 >>, << "Oat", 12 >> }

\* crop_calendar['Crop'].map(crop_names_reverse): the name of a code, nan
\* for a code the dict does not hold
CropName(code) ==
    IF \E item \in crop_names : item[2] = code
    THEN (CHOOSE item \in crop_names : item[2] = code)[1]
    ELSE "nan"

\* DateOfIndex with the year taken from (start_date.month + i) // 12
DateOfIndexYearEarly(start, i) ==
    [year |-> start.year + (start.month + i) \div 12,
     month |-> ((start.month + i - 1) % 12) + 1]

\* dates[i], i counted from 0
DateOfIndex(start, i) ==
    [year |-> start.year + (start.month + i - 1) \div 12,
     month |-> ((start.month + i - 1) % 12) + 1]

\* get_rotation(start_date_str)
get_rotation(start_date_str, start) ==
    LET d == ParseYM(start_date_str)
    IN  IF (d.year = start.year /\ d.month >= 3) \/ d.year < start.year + 4
        THEN RotationLabel(1)
        ELSE IF d.year < start.year + 8 THEN RotationLabel(2)
        ELSE IF d.year < start.year + 12 THEN RotationLabel(3)
        ELSE IF d.year < start.year + 16 THEN RotationLabel(4)
        ELSE RotationLabel(5)

\* PeriodEnd that stops after one month whatever the next code is
PeriodEndAfterOneMonth(seq, i, current_crop) == i + 1

RECURSIVE PeriodEnd(_, _, _)
\* while i < len(crop_sequence) and crop_sequence[i] == current_crop: i += 1
PeriodEnd(seq, i, current_crop) ==
    IF i <= Len(seq) /\ FloatEq(seq[i], current_crop)
    THEN PeriodEnd(seq, i + 1, current_crop)
    ELSE i

RECURSIVE CropPeriodsEndAtNextStart(_, _, _)
\* CropPeriods with end_idx = i: a period ends at the month the next starts
CropPeriodsEndAtNextStart(seq, i, start) ==
    IF i > Len(seq) THEN << >>
    ELSE LET current_crop == seq[i]
             after == PeriodEnd(seq, i, current_crop)
             first == DateOfIndex(start, i - 1)
             last == DateOfIndex(start, after - 1)
             Start_Date == FormatYM(first.year, first.month)
         IN  << [Crop |-> current_crop,
                 Crop_Name |-> CropName(current_crop),
                 Start_Date |-> Start_Date,
                 End_Date |-> FormatYM(last.year, last.month),
                 Rotation |-> get_rotation(Start_Date, start)] >>
             \o CropPeriodsEndAtNextStart(seq, after, start)

RECURSIVE CropPeriods(_, _, _)
\* the list crop_periods built from index i on (indices counted from 1)
CropPeriods(seq, i, start) ==
    IF i > Len(seq) THEN << >>
    ELSE LET current_crop == seq[i]
             after == PeriodEnd(seq, i, current_crop)
             first == DateOfIndex(start, i - 1)
             last == DateOfIndex(start, after - 2)
             Start_Date == FormatYM(first.year, first.month)
         IN  << [Crop |-> current_crop,
                 Crop_Name |-> CropName(current_crop),
                 Start_Date |-> Start_Date,
                 End_Date |-> FormatYM(last.year, last.month),
                 Rotation |-> get_rotation(Start_Date, start)] >>
             \o CropPeriods(seq, after, start)

\* create_crop_calendar(crop_sequence, crop_names, start_date): a DataFrame
\* built from an empty list has no 'Crop' column, and int(current_crop) of
\* a period of NaN raises ValueError
create_crop_calendar(seq, start) ==
    IF Len(seq) = 0 THEN Raise("KeyError")
    ELSE IF \E k \in 1..Len(seq) : IsNa(seq[k]) THEN Raise("ValueError")
    ELSE Return(CropPeriods(seq, 1, start))

-----------------------------------------------------------------------------
(* CreateCropYieldTable.py
   Amounts of biomass are in 1/100 t/ha and yields and carbon inputs in
   1/30000 t/ha, so that the carbon content 0.44, the yields of
   additional_crops and the halves and sixths of transform_agb_rothc are
   whole numbers; the S coefficients of the Bolinder table are in percent,
   which makes Cin_Bol a whole number of 1/3000000 t/ha. *)

\* yield = biomass * 0.44, from 1/100 t/ha to 1/30000 t/ha
CarbonContent == 132

\* the list additional_crops
additional_crops ==
    << [species |-> "Rapeseed", yield |-> 90000],
       [species |-> "Cameline", yield |-> 45000],
       [species |-> "Faba", yield |-> 90000],
       [species |-> "Oat", yield |-> 204000],
       [species |-> "Pea", yield |-> 90000] >>

\* yield_table["Crop species"].map(crop_names_dict): nan for a species the
\* dict does not hold
CropCode(species) ==
    IF \E item \in crop_names : item[1] = species
    THEN (CHOOSE item \in crop_names : item[1] = species)[2]
    ELSE NaN

\* the yield table before the merge: the rows of the harvested biomass per
\* species (the means of the vegetation data) whose biomass is not zero,
\* converted into carbon, then the additional crops
YieldRows(harvested) ==
    LET kept == SelectSeq(harvested, LAMBDA row : row.biomass # 0)
    IN  [r \in 1..Len(kept) |-> [species |-> kept[r].species,
                                 yield |-> kept[r].biomass * CarbonContent]]
        \o additional_crops

\* Cin_Bol of a merged row: Cp*SP + Cr*SR + Cs*SS + Ce*SE with
\* Cr = (RR/RP)*Cp, Cs = (RS/RP)*Cp and Ce = (RE/RP)*Cp
CinBol(yield, coeff) ==
    LET Cp == yield
        Cr == (coeff.RR * Cp) \div coeff.RP
        Cs == (coeff.RS * Cp) \div coeff.RP
        Ce == (coeff.RE * Cp) \div coeff.RP
    IN  Cp * coeff.SP + Cr * coeff.SR + Cs * coeff.SS + Ce * coeff.SE

RECURSIVE Merge(_, _, _)
\* yield_table.merge(bolinder_coeff_table, left_on="Crop species",
\* right_on="Crop", how="inner") from row r of the yield table on, with the
\* columns kept in final_yield_table
Merge(rows, r, bolinder_coeff_table) ==
    IF r > Len(rows) THEN << >>
    ELSE LET matches == SelectSeq(bolinder_coeff_table,
                                  LAMBDA coeff : coeff.Crop = rows[r].species)
         IN  [m \in 1..Len(matches) |->
                 [Crop_species |-> rows[r].species,
                  Avg_yield |-> rows[r].yield,
                  Crop_code |-> CropCode(rows[r].species),
                  Cin_Bol |-> CinBol(rows[r].yield, matches[m])]]
             \o Merge(rows, r + 1, bolinder_coeff_table)

\* create_yield_table(vegetation_data_path, crop_names_dict, bolinder_coeff_table)
create_yield_table(harvested, bolinder_coeff_table) ==
    Merge(YieldRows(harvested), 1, bolinder_coeff_table)

-----------------------------------------------------------------------------
(* CreateRothCDataIn.py *)

\* a file of the data folder, and the file that is not there
File(content) == [exists |-> TRUE, content |-> content]
NoFile == [exists |-> FALSE, content |-> << >>]

\* the file called name of the folder files, NoFile when there is none
ReadFile(files, name) ==
    IF name \in DOMAIN files THEN File(files[name]) ELSE NoFile

\* to_csv: the file called name is created or replaced
WriteFile(files, name, content) ==
    [n \in DOMAIN files \cup { name } |-> IF n = name THEN content ELSE files[n]]

\* CoeffBolinder.loc[CoeffBolinder['Crop'] == 'Winter Wheat', ['SS']]
\*     = straw_scenario/100, SS being held in percent
SetStrawCoefficient(CoeffBolinder, straw_scenario) ==
    [r \in 1..Len(CoeffBolinder) |->
        IF CoeffBolinder[r].Crop = "Winter Wheat"
        THEN [CoeffBolinder[r] EXCEPT !.SS = straw_scenario]
        ELSE CoeffBolinder[r]]

\* dict(zip(yield_table["Crop code"], yield_table["Cin_Bol"]))[code]: the
\* value of the last row with that code; Series.map gives nan for a code
\* the dict does not hold
CinBolOfCode(yield_table, code) ==
    LET rows == { r \in 1..Len(yield_table) : yield_table[r].Crop_code = code }
    IN  IF rows = {} THEN NaN
        ELSE yield_table[CHOOSE r \in rows : \A q \in rows : q <= r].Cin_Bol

\* the soil cover factors, in tenths
SoilCoverBare == 10
SoilCoverCropped == 6

\* SoilCover with the two factors exchanged
SoilCoverExchanged(crop_sequence_) ==
    [k \in 1..Len(crop_sequence_) |->
        IF crop_sequence_[k] = 1 THEN SoilCoverCropped ELSE SoilCoverBare]

\* crop_sequence.apply(lambda x: 1.0 if x == 1 else 0.6)
SoilCover(crop_sequence_) ==
    [k \in 1..Len(crop_sequence_) |->
        IF crop_sequence_[k] = 1 THEN SoilCoverBare ELSE SoilCoverCropped]

\* FYM_mean_per_rot = 2.69, in hundredths
FYM_mean_per_rot == 269

\* calculate_pet_penman_monteith: one value per month, computed from that
\* month's temperature, humidity and radiation and from whether the
\* radiation series is taken to be in W/m2 (its maximum exceeds 50); the
\* value is kept as the inputs it is computed from
calculate_pet_penman_monteith(temp_c, rh_percent, shortwave_rad) ==
    LET in_watts == \E k \in 1..Len(shortwave_rad) :
                        shortwave_rad[k] # NaN /\ shortwave_rad[k] > 50
        n == Max(Len(temp_c), Max(Len(rh_percent), Len(shortwave_rad)))
        At(ser, k) == IF k <= Len(ser) THEN ser[k] ELSE NaN
    IN  [k \in 1..n |-> [temp_c |-> At(temp_c, k), rh_percent |-> At(rh_percent, k),
                         shortwave_rad |-> At(shortwave_rad, k), in_watts |-> in_watts]]

\* whether the value of a month is nan: nan propagates through every
\* operation from a nan input; rso = rs * 1.35 makes 1.35 * rs / rso the
\* quotient 0.0 / 0.0, which is nan, when the radiation is 0; np.sqrt of a
\* negative e_actual (a negative humidity) is nan
PetIsNan(p) ==
    \/ IsNa(p.temp_c) \/ IsNa(p.rh_percent) \/ IsNa(p.shortwave_rad)
    \/ p.shortwave_rad = 0
    \/ p.rh_percent < 0

\* pet = np.maximum(pet, 0) * 30: np.maximum gives nan back when pet is nan,
\* and a number that is not negative otherwise
PetFloored(p) == IF PetIsNan(p) THEN "nan" ELSE "nonnegative"

\* the value of a month that a column does not have
MissingPet == [temp_c |-> NaN, rh_percent |-> NaN, shortwave_rad |-> NaN, in_watts |-> FALSE]

\* pd.DataFrame of series indexed 0..len-1: the index is the longest one and
\* a shorter series is nan where it has no value
DataFrame(columns) ==
    LET n == Max(Len(columns.T), Max(Len(columns.Evap), Max(Len(columns.P),
             Max(Len(columns.FYM), Max(Len(columns.AGB),
             Max(Len(columns.SoilCover), Len(columns.Crop)))))))
        Pad(ser, missing) == [k \in 1..n |-> IF k <= Len(ser) THEN ser[k] ELSE missing]
    IN  [T |-> Pad(columns.T, NaN), Evap |-> Pad(columns.Evap, MissingPet),
         P |-> Pad(columns.P, NaN), FYM |-> Pad(columns.FYM, NaN),
         AGB |-> Pad(columns.AGB, NaN), SoilCover |-> Pad(columns.SoilCover, NaN),
         Crop |-> Pad(columns.Crop, NaN)]

\* the names of the files of the data folder
ClimateFileName(variable, warming_scenario) ==
    "ALARO_" \o variable \o "_RCP-" \o warming_scenario \o ".csv"
CalendarFileName(management_scenario) ==
    "crop_calendar_" \o management_scenario \o ".csv"
DataInFileName(management_scenario, warming_scenario, straw_scenario) ==
    "DataRothCRun_" \o management_scenario \o "_" \o warming_scenario
        \o "_" \o ToString(straw_scenario) \o ".csv"

\* what CreateRothCDataIn leaves when it raises before writing
DataInRaised(files, e, warnings) ==
    [ret |-> Raise(e), files |-> files, warnings |-> warnings]

\* lines 66-118: the climate sequences, the evapotranspiration, the table
\* and its file
DataInTable(files, out_name, FYM_sequence, AGB_sequence, soilcover_sequence, seq, warnings, temperature, precipitation, humidity, radiation) ==
    LET DataRothC ==
            DataFrame([T |-> temperature.ret.value,
                       Evap |-> calculate_pet_penman_monteith(temperature.ret.value,
                                    humidity.ret.value, radiation.ret.value),
                       P |-> precipitation.ret.value,
                       FYM |-> FYM_sequence,
                       AGB |-> AGB_sequence,
                       SoilCover |-> soilcover_sequence,
                       Crop |-> seq])
    IN  [ret |-> Return(DataRothC),
         files |-> WriteFile(files, out_name, DataRothC),
         warnings |-> warnings \o temperature.warnings \o precipitation.warnings
                        \o humidity.warnings \o radiation.warnings]

\* DataInOfCarbon with the climate sequences built over the first period
\* of the calendar only
DataInOfCarbonFirstPeriodClimate(files, out_name, cal, climate, setzero, seq, warnings, AGB) ==
    IF AGB.raised # "none" THEN DataInRaised(files, AGB.raised, warnings)
    ELSE DataInTable(files, out_name,
            IF setzero THEN [k \in 1..Len(AGB.value) |-> 0]
            ELSE create_fym_sequence(seq, FYM_mean_per_rot, 7).value,
            AGB.value, SoilCover(seq), seq, warnings,
            build_climate_sequence_from_calendar(SubSeq(cal, 1, 1), climate.T),
            build_climate_sequence_from_calendar(SubSeq(cal, 1, 1), climate.P),
            build_climate_sequence_from_calendar(SubSeq(cal, 1, 1), climate.RH),
            build_climate_sequence_from_calendar(SubSeq(cal, 1, 1), climate.Rn))

\* lines 54-64: the carbon inputs and the manure of the crop sequence
DataInOfCarbon(files, out_name, cal, climate, setzero, seq, warnings, AGB) ==
    IF AGB.raised # "none" THEN DataInRaised(files, AGB.raised, warnings)
    ELSE DataInTable(files, out_name,
            IF setzero THEN [k \in 1..Len(AGB.value) |-> 0]
            ELSE create_fym_sequence(seq, FYM_mean_per_rot, 7).value,
            AGB.value, SoilCover(seq), seq, warnings,
            build_climate_sequence_from_calendar(cal, climate.T),
            build_climate_sequence_from_calendar(cal, climate.P),
            build_climate_sequence_from_calendar(cal, climate.RH),
            build_climate_sequence_from_calendar(cal, climate.Rn))

\* lines 49-56: the crop sequence of the calendar, mapped to the carbon
\* input of its crops
DataInOfSequence(files, out_name, yield_table, crop_calendar_, climate, setzero, sequence) ==
    IF sequence.ret.raised # "none"
    THEN DataInRaised(files, sequence.ret.raised, sequence.warnings)
    ELSE DataInOfCarbon(files, out_name, crop_calendar_, climate, setzero,
            sequence.ret.value, sequence.warnings,
            transform_agb_rothc([k \in 1..Len(sequence.ret.value) |->
                                    CinBolOfCode(yield_table, sequence.ret.value[k])]))

\* CreateRothCDataIn(data_path, warming_scenario, straw_scenario,
\*                   management_scenario, setzeroFYM), files being the
\* content of data_path; read_csv and read_excel raise FileNotFoundError
CreateRothCDataIn(files, warming_scenario, straw_scenario, management_scenario, setzero) ==
    LET Read(name) == ReadFile(files, name)
        monthly_rn_df == Read(ClimateFileName("Rn", warming_scenario))
        monthly_rh_df == Read(ClimateFileName("RH", warming_scenario))
        monthly_pr_df == Read(ClimateFileName("P", warming_scenario))
        monthly_temp_df == Read(ClimateFileName("T", warming_scenario))
        CoeffBolinder == Read("CoeffBolinder.csv")
        vegetation == Read("BE-Lon_vegetation data.xlsx")
        calendar == Read(CalendarFileName(management_scenario))
    IN  IF \/ ~monthly_rn_df.exists \/ ~monthly_rh_df.exists
           \/ ~monthly_pr_df.exists \/ ~monthly_temp_df.exists
           \/ ~CoeffBolinder.exists \/ ~vegetation.exists \/ ~calendar.exists
        THEN DataInRaised(files, "FileNotFoundError", << >>)
        ELSE DataInOfSequence(files,
                DataInFileName(management_scenario, warming_scenario, straw_scenario),
                create_yield_table(vegetation.content,
                    SetStrawCoefficient(CoeffBolinder.content, straw_scenario)),
                calendar.content,
                [T |-> monthly_temp_df.content, P |-> monthly_pr_df.content,
                 RH |-> monthly_rh_df.content, Rn |-> monthly_rn_df.content],
                setzero,
                crop_calendar_to_sequence(calendar.content))

-----------------------------------------------------------------------------
(* The inputs the model feeds *)

\* the date of a month counted from year 0
DateOfMonth(t) == [year |-> t \div 12, month |-> (t % 12) + 1]
MonthOfDate(d) == d.year * 12 + d.month - 1

StartDates == { [year |-> 2004, month |-> 3], [year |-> 2025, month |-> 1] }
AnchorDates == { [year |-> 2004, month |-> 3], [year |-> 2004, month |-> 11] }
CalendarCrops == {1, 7}
SequenceCrops == {1, 2, 7}
\* months of a period
Durations == {1, 48, 49}
\* months from the end of a period to the start of the next row: 1 is
\* adjacent, 2 leaves a gap of one month, 0 and below overlap or go back
Offsets == {0 - 2, 1, 2}
CarbonValues == {0, 6, 12, NaN}
FymMeans == {3}
TargetCrops == {7, 2}

\* the elements of a sequence whose block-scanning loop is followed
ScanCrops == SequenceCrops \cup {NaN}

RECURSIVE CalendarRows(_, _, _)
\* the rows r .. Len(shape) of the calendar whose row r starts in month t
CalendarRows(shape, r, t) ==
    IF r > Len(shape) THEN << >>
    ELSE LET first == DateOfMonth(t)
             last == DateOfMonth(t + shape[r].duration - 1)
         IN  << [Crop |-> shape[r].crop,
                 Crop_Name |-> CropName(shape[r].crop),
                 Start_Date |-> FormatYM(first.year, first.month),
                 End_Date |-> FormatYM(last.year, last.month),
                 Rotation |-> RotationLabel(r + 1)] >>
             \o (IF r = Len(shape) THEN << >>
                 ELSE CalendarRows(shape, r + 1,
                                   t + shape[r].duration - 1 + shape[r + 1].offset))

Shapes(n) ==
    { shape \in [1..n -> [crop : CalendarCrops, offset : Offsets, duration : Durations]] :
        shape[1].offset = 1 }

Calendars ==
    { CalendarRows(shape, 1, MonthOfDate(d)) :
        shape \in UNION { Shapes(n) : n \in 1..MaxPeriods }, d \in StartDates }

\* the calendars that start in 2004-03
CalendarsOfMarch ==
    { CalendarRows(shape, 1, MonthOfDate([year |-> 2004, month |-> 3])) :
        shape \in UNION { Shapes(n) : n \in 1..MaxPeriods } }

ClimateRows(rows) ==
    [k \in 1..Len(rows) |-> [Year |-> rows[k][1], Month |-> rows[k][2], Value |-> rows[k][3]]]

\* a table that covers 2004-03 .. 2005-02
TableFull ==
    ClimateRows(<< << 2004, 3, 43 >>, << 2004, 4, 44 >>, << 2004, 5, 45 >>,
                   << 2004, 6, 46 >>, << 2004, 7, 47 >>, << 2004, 8, 48 >>,
                   << 2004, 9, 49 >>, << 2004, 10, 50 >>, << 2004, 11, 51 >>,
                   << 2004, 12, 52 >>, << 2005, 1, 53 >>, << 2005, 2, 54 >> >>)

\* a table with months missing, 2025-02 among them
TableSparse ==
    ClimateRows(<< << 2004, 3, 43 >>, << 2004, 5, 45 >>, << 2004, 11, 51 >>,
                   << 2005, 1, 53 >>, << 2025, 1, 11 >>, << 2025, 3, 13 >> >>)

\* a table out of order that holds two records for some months
TableDuplicates ==
    ClimateRows(<< << 2025, 1, 11 >>, << 2004, 11, 51 >>, << 2004, 3, 43 >>,
                   << 2004, 11, 91 >>, << 2025, 1, 71 >>, << 2004, 12, 52 >>,
                   << 2004, 3, 83 >> >>)

ClimateTables == { TableFull, TableSparse, TableDuplicates, << >> }

\* months of a run of a long sequence
RunLengths == {1, 46, 96}

RECURSIVE RunsToSequence(_, _)
\* the monthly sequence of the runs r .. Len(runs)
RunsToSequence(runs, r) ==
    IF r > Len(runs) THEN << >>
    ELSE [k \in 1..runs[r].length |-> runs[r].crop] \o RunsToSequence(runs, r + 1)

\* sequences of several years, given run by run, the crop changing from a
\* run to the next
LongSequences ==
    { RunsToSequence(runs, 1) :
        runs \in { x \in UNION { [1..n -> [crop : CalendarCrops, length : RunLengths]] :
                                   n \in 1..MaxRuns } :
                     \A r \in 1..(Len(x) - 1) : x[r].crop # x[r + 1].crop } }

\* the scenario lists of main.py
warming_scenarios == << "8.5", "4.5", "2.6" >>
step_straw_return == 50
straw_scenarios == << 0, step_straw_return, 2 * step_straw_return >>
rotation_scenarios == << "baselinesubset", "ecofood_ref", "ecofoodvegan" >>

Range(seq) == { seq[k] : k \in 1..Len(seq) }

\* calendars of a few months
ShortDurations == {1, 4, 5}
ShortCalendars ==
    { CalendarRows(shape, 1, MonthOfDate([year |-> 2004, month |-> 11])) :
        shape \in UNION { { x \in [1..n -> [crop : CalendarCrops, offset : Offsets,
                                            duration : ShortDurations]] :
                              x[1].offset = 1 } : n \in 1..MaxPeriods } }

\* CoeffBolinder.csv: the relative plant parts R and, in percent, the shares
\* S of each part that return to the soil
BolinderTable ==
    << [Crop |-> "Winter Wheat", RP |-> 1, RS |-> 2, RR |-> 1, RE |-> 1,
        SP |-> 0, SR |-> 100, SS |-> 15, SE |-> 100],
       [Crop |-> "Cover crop", RP |-> 1, RS |-> 1, RR |-> 1, RE |-> 1,
        SP |-> 100, SR |-> 100, SS |-> 100, SE |-> 100],
       [Crop |-> "Potato", RP |-> 2, RS |-> 1, RR |-> 1, RE |-> 1,
        SP |-> 0, SR |-> 100, SS |-> 30, SE |-> 100],
       [Crop |-> "Oat", RP |-> 1, RS |-> 2, RR |-> 1, RE |-> 1,
        SP |-> 0, SR |-> 100, SS |-> 15, SE |-> 100] >>

\* the mean harvested biomass per species of the vegetation data
Harvested ==
    << [species |-> "Potato", biomass |-> 0],
       [species |-> "Winter Wheat", biomass |-> 800],
       [species |-> "Cover crop", biomass |-> 300] >>

\* the climate table of a variable under a warming scenario
ClimateFile(variable, warming_scenario) ==
    IF variable = "T"
    THEN (IF warming_scenario = "8.5" THEN TableFull
          ELSE IF warming_scenario = "4.5" THEN TableSparse ELSE TableDuplicates)
    ELSE IF variable = "P"
    THEN (IF warming_scenario = "8.5" THEN TableSparse ELSE TableFull)
    ELSE IF variable = "RH" THEN TableFull
    ELSE (IF warming_scenario = "2.6" THEN TableSparse ELSE TableFull)

\* the data folder: the climate tables, the coefficients, the vegetation
\* data and the calendar files given
DataFolder(calendars) ==
    [name \in { ClimateFileName(v, w) : v \in {"T", "P", "RH", "Rn"},
                                       w \in Range(warming_scenarios) }
              \cup { "CoeffBolinder.csv", "BE-Lon_vegetation data.xlsx" }
              \cup { CalendarFileName(m) : m \in DOMAIN calendars } |->
        IF name = "CoeffBolinder.csv" THEN BolinderTable
        ELSE IF name = "BE-Lon_vegetation data.xlsx" THEN Harvested
        ELSE IF \E m \in DOMAIN calendars : name = CalendarFileName(m)
        THEN calendars[CHOOSE m \in DOMAIN calendars : name = CalendarFileName(m)]
        ELSE LET vw == CHOOSE vw \in {"T", "P", "RH", "Rn"} \X Range(warming_scenarios) :
                            name = ClimateFileName(vw[1], vw[2])
             IN  ClimateFile(vw[1], vw[2])]

\* what a date cell may hold: two dates, a year without a month, and a
\* text that is no number
DateStrings ==
    { FormatYM(2004, 3), FormatYM(2004, 5), << 2, 0, 0, 4 >>,
      << Letter, Letter, Dash, 0, 3 >> }

\* calendars of wheat periods whose date cells hold any of these, and the
\* calendar without a row
DateCellCalendars ==
    UNION { [1..n -> [Crop : {7}, Crop_Name : {"Winter Wheat"},
                      Start_Date : DateStrings, End_Date : DateStrings,
                      Rotation : {RotationLabel(1)}]] : n \in 0..MaxPeriods }

\* monthly temperatures (degrees C), relative humidities (%) and radiations
\* (W/m2) of the series passed to calculate_pet_penman_monteith
PetTemperatures == { 10, NaN }
PetHumidities == { 80, 100, NaN }
PetRadiations == { 0, 60, NaN }

PetInputs ==
    UNION { [temp_c : [1..n -> PetTemperatures], rh_percent : [1..n -> PetHumidities],
             shortwave_rad : [1..n -> PetRadiations]] : n \in 0..MaxMonths }

\* the calendars of the three rotations of a data folder
PeriodRow(crop, first, last) ==
    [Crop |-> crop, Crop_Name |-> CropName(crop),
     Start_Date |-> FormatYM(first[1], first[2]),
     End_Date |-> FormatYM(last[1], last[2]), Rotation |-> RotationLabel(1)]

RotationCalendars ==
    [m \in Range(rotation_scenarios) |->
        IF m = "baselinesubset"
        THEN << PeriodRow(7, << 2004, 11 >>, << 2005, 2 >>),
                PeriodRow(1, << 2005, 3 >>, << 2005, 3 >>) >>
        ELSE IF m = "ecofood_ref"
        THEN << PeriodRow(1, << 2004, 11 >>, << 2004, 11 >>),
                PeriodRow(7, << 2004, 12 >>, << 2005, 1 >>) >>
        ELSE << PeriodRow(2, << 2004, 11 >>, << 2004, 12 >>),
                PeriodRow(7, << 2005, 1 >>, << 2005, 2 >>) >>]

\* the data folders of the scenario loop: complete; without the calendar
\* file of the last rotation; with a rotation left as bare soil
SweepFolders ==
    { DataFolder(RotationCalendars),
      DataFolder([m \in { "baselinesubset", "ecofood_ref" } |-> RotationCalendars[m]]),
      DataFolder([RotationCalendars EXCEPT !["ecofood_ref"] =
                    << PeriodRow(1, << 2004, 11 >>, << 2005, 1 >>) >>]) }

BoundedSeq(S, n) == UNION { [1..k -> S] : k \in 0..n }

-----------------------------------------------------------------------------
(* The caller *)

NoDate == [year |-> 0, month |-> 0]

\* no call of CreateRothCDataIn yet
NoScenario == [warming |-> "", straw |-> 0, management |-> "", setzeroFYM |-> FALSE]

\* a data folder without any file
NoFiles == << >>

\* no block-scanning loop is being followed
NoScan == [fn |-> "", values |-> << >>, target |-> 0, i |-> 0, visited |-> << >>,
           pc |-> "none"]

\* no function has been called
InitNoCall ==
    /\ scan = NoScan
    /\ scenario = NoScenario
    /\ start_date = NoDate
    /\ n_duplications = 0
    /\ climate_df = << >>
    /\ fym_mean = 0
    /\ target_crop = 0
    /\ calls = << >>
    /\ rets = << >>
    /\ stdout = << >>

\* the scenario loop is not running
InitCommon ==
    /\ iteration = << >>
    /\ invocations = << >>
    /\ sweep_raised = "none"
    /\ InitNoCall

\* the caller holds a calendar (a crop_calendar_*.csv)
InitCalendar ==
    /\ data_dir = NoFiles
    /\ entry = "calendar"
    /\ crop_calendar \in Calendars
    /\ crop_sequence = << >>
    /\ series = << >>
    /\ InitCommon

\* the caller holds a monthly sequence of crop codes
InitSequence ==
    /\ data_dir = NoFiles
    /\ entry = "sequence"
    /\ crop_calendar = << >>
    /\ crop_sequence \in BoundedSeq(SequenceCrops, MaxLen)
    /\ series = << >>
    /\ InitCommon

\* the caller holds a monthly sequence of crop codes of several years
InitLongSequence ==
    /\ data_dir = NoFiles
    /\ entry = "sequence"
    /\ crop_calendar = << >>
    /\ crop_sequence \in LongSequences
    /\ series = << >>
    /\ InitCommon

\* the caller holds a data folder whose calendar of the baseline rotation
\* is crop_calendar
InitDataIn ==
    /\ entry = "data"
    /\ crop_calendar \in ShortCalendars \cup { << >> }
    /\ data_dir = DataFolder([m \in { "baselinesubset" } |-> crop_calendar])
    /\ crop_sequence = << >>
    /\ series = << >>
    /\ InitCommon

\* the caller holds a calendar that starts in 2004-03
InitCalendarOfMarch ==
    /\ data_dir = NoFiles
    /\ entry = "calendar"
    /\ crop_calendar \in CalendarsOfMarch
    /\ crop_sequence = << >>
    /\ series = << >>
    /\ InitCommon

\* the caller holds a calendar of short periods
InitShortCalendar ==
    /\ data_dir = NoFiles
    /\ entry = "calendar"
    /\ crop_calendar \in ShortCalendars
    /\ crop_sequence = << >>
    /\ series = << >>
    /\ InitCommon

\* the caller holds a short monthly sequence of crop codes
InitShortSequence ==
    /\ data_dir = NoFiles
    /\ entry = "sequence"
    /\ crop_calendar = << >>
    /\ crop_sequence \in BoundedSeq(SequenceCrops, MaxShort)
    /\ series = << >>
    /\ InitCommon

\* the caller holds a calendar whose date cells were not validated
InitDateCells ==
    /\ data_dir = NoFiles
    /\ entry = "calendar"
    /\ crop_calendar \in DateCellCalendars
    /\ crop_sequence = << >>
    /\ series = << >>
    /\ InitCommon

\* NextCombination with the loops over j and k exchanged: straw innermost
NextCombinationStrawInnermost(it) ==
    IF it.j < Len(straw_scenarios) THEN [it EXCEPT !.j = it.j + 1, !.pc = "create"]
    ELSE IF it.k < Len(rotation_scenarios)
    THEN [it EXCEPT !.k = it.k + 1, !.j = 1, !.pc = "create"]
    ELSE IF it.i < Len(warming_scenarios)
    THEN [it EXCEPT !.i = it.i + 1, !.j = 1, !.k = 1, !.pc = "create"]
    ELSE [it EXCEPT !.pc = "done"]

\* the three nested for loops: the next (i, j, k), rotation innermost
NextCombination(it) ==
    IF it.k < Len(rotation_scenarios) THEN [it EXCEPT !.k = it.k + 1, !.pc = "create"]
    ELSE IF it.j < Len(straw_scenarios)
    THEN [it EXCEPT !.j = it.j + 1, !.k = 1, !.pc = "create"]
    ELSE IF it.i < Len(warming_scenarios)
    THEN [it EXCEPT !.i = it.i + 1, !.j = 1, !.k = 1, !.pc = "create"]
    ELSE [it EXCEPT !.pc = "done"]

\* a run of the loop body that starts at combination (i, j, k)
StartAt(i, j, k) == [pc |-> "create", i |-> i, j |-> j, k |-> k, DataRothCIn |-> << >>]

InitNoInput ==
    /\ crop_calendar = << >>
    /\ crop_sequence = << >>
    /\ series = << >>
    /\ invocations = << >>
    /\ sweep_raised = "none"
    /\ InitNoCall

\* main.py is about to enter the scenario loop
InitSweep ==
    /\ entry = "sweep"
    /\ data_dir \in SweepFolders
    /\ iteration = << StartAt(1, 1, 1) >>
    /\ InitNoInput

\* two runs of the loop body, of a combination and of the next one in loop
\* order, are about to start on a complete data folder
InitInterleaved ==
    /\ entry = "interleaved"
    /\ data_dir = DataFolder(RotationCalendars)
    /\ \E i \in 1..Len(warming_scenarios), j \in 1..Len(straw_scenarios),
          k \in 1..Len(rotation_scenarios) :
          /\ NextCombination(StartAt(i, j, k)).pc # "done"
          /\ iteration = << StartAt(i, j, k), NextCombination(StartAt(i, j, k)) >>
    /\ InitNoInput

\* the caller holds the three climate series of the PET function
InitPet ==
    /\ data_dir = NoFiles
    /\ entry = "climate"
    /\ crop_calendar = << >>
    /\ crop_sequence = << >>
    /\ series = << >>
    /\ climate_df \in PetInputs
    /\ scan = NoScan
    /\ iteration = << >>
    /\ invocations = << >>
    /\ sweep_raised = "none"
    /\ scenario = NoScenario
    /\ start_date = NoDate
    /\ n_duplications = 0
    /\ fym_mean = 0
    /\ target_crop = 0
    /\ calls = << >>
    /\ rets = << >>
    /\ stdout = << >>

\* the caller holds a monthly series of carbon inputs
InitSeries ==
    /\ data_dir = NoFiles
    /\ entry = "series"
    /\ crop_calendar = << >>
    /\ crop_sequence = << >>
    /\ series \in BoundedSeq(CarbonValues, MaxSeries)
    /\ InitCommon

\* the while loop of function fn is entered with i = 0 (index 1 here)
StartScan(fn, values, target) ==
    [fn |-> fn, values |-> values, target |-> target, i |-> 1, visited |-> << >>,
     pc |-> "loop"]

\* one of the three block-scanning loops is entered on a short sequence
InitScan ==
    /\ data_dir = NoFiles
    /\ entry = "scan"
    /\ crop_calendar = << >>
    /\ crop_sequence = << >>
    /\ series = << >>
    /\ iteration = << >>
    /\ invocations = << >>
    /\ sweep_raised = "none"
    /\ scenario = NoScenario
    /\ start_date = NoDate
    /\ n_duplications = 0
    /\ climate_df = << >>
    /\ fym_mean = 0
    /\ target_crop = 0
    /\ calls = << >>
    /\ rets = << >>
    /\ stdout = << >>
    /\ scan \in
         { StartScan("create_crop_calendar", v, 0) : v \in BoundedSeq(ScanCrops, MaxShort) }
         \cup { StartScan("create_fym_sequence", v, t) :
                    v \in BoundedSeq(ScanCrops, MaxShort), t \in TargetCrops }
         \cup { StartScan("transform_agb_rothc", v, 0) :
                    v \in BoundedSeq(CarbonValues, MaxShort) }

Init == InitCalendar \/ InitSequence \/ InitSeries \/ InitDataIn

Last(s) == s[Len(s)]

\* the last call returned a value
Returned == Len(rets) > 0 /\ Last(rets).raised = "none"

\* final_calendar = duplicate_crop_calendar(crop_calendar, n)
DuplicateCropCalendar ==
    /\ entry = "calendar"
    /\ calls = << >>
    /\ \E n \in 0..MaxDup :
        /\ n_duplications' = n
        /\ rets' = << duplicate_crop_calendar(crop_calendar, n) >>
        /\ crop_calendar' = ObjectsOfDuplicate(crop_calendar, n).crop_calendar
    /\ calls' = << "duplicate_crop_calendar" >>
    /\ stdout' = << >>
    /\ UNCHANGED << scan, iteration, invocations, sweep_raised, data_dir, scenario, entry, crop_sequence, series, start_date,
                    climate_df, fym_mean, target_crop >>

\* crop_calendar_to_sequence of the caller's calendar, or of the calendar
\* the last call returned
CropCalendarToSequence ==
    /\ \/ entry = "calendar" /\ calls = << >>
       \/ /\ calls \in { << "create_crop_calendar" >>,
                         << "crop_calendar_to_sequence", "create_crop_calendar" >> }
          /\ Returned
    /\ \E out \in { crop_calendar_to_sequence(IF calls = << >> THEN crop_calendar
                                              ELSE Last(rets).value) } :
        /\ rets' = Append(rets, out.ret)
        /\ stdout' = out.warnings
    /\ calls' = Append(calls, "crop_calendar_to_sequence")
    /\ UNCHANGED << scan, iteration, invocations, sweep_raised, data_dir, scenario, entry, crop_calendar, crop_sequence, series, start_date,
                    n_duplications, climate_df, fym_mean, target_crop >>

\* crop_calendar_to_sequence(duplicate_crop_calendar(crop_calendar, n))
SequenceOfDuplicate ==
    /\ entry = "calendar"
    /\ calls = << "duplicate_crop_calendar" >>
    /\ Returned
    /\ \E out \in { crop_calendar_to_sequence(Last(rets).value) } :
        /\ rets' = Append(rets, out.ret)
        /\ stdout' = out.warnings
    /\ calls' = Append(calls, "crop_calendar_to_sequence")
    /\ UNCHANGED << scan, iteration, invocations, sweep_raised, data_dir, scenario, entry,
                    crop_calendar, crop_sequence, series, start_date, n_duplications,
                    climate_df, fym_mean, target_crop >>

\* create_crop_calendar of the caller's sequence from some start date, or of
\* the sequence of the caller's calendar from the calendar's start
CreateCropCalendar ==
    /\ \/ /\ entry = "sequence" /\ calls = << >>
          /\ \E d \in AnchorDates :
              /\ start_date' = d
              /\ rets' = << create_crop_calendar(crop_sequence, d) >>
       \/ /\ entry = "calendar" /\ calls = << "crop_calendar_to_sequence" >>
          /\ Returned
          /\ start_date' = ParseYM(crop_calendar[1].Start_Date)
          /\ rets' = Append(rets, create_crop_calendar(Last(rets).value, start_date'))
    /\ calls' = Append(calls, "create_crop_calendar")
    /\ stdout' = << >>
    /\ UNCHANGED << scan, iteration, invocations, sweep_raised, data_dir, scenario, entry, crop_calendar, crop_sequence, series,
                    n_duplications, climate_df, fym_mean, target_crop >>

\* transform_agb_rothc(series)
TransformAgbRothc ==
    /\ entry = "series"
    /\ calls = << >>
    /\ rets' = << transform_agb_rothc(series) >>
    /\ series' = ObjectsOfTransform(series).series
    /\ calls' = << "transform_agb_rothc" >>
    /\ stdout' = << >>
    /\ UNCHANGED << scan, iteration, invocations, sweep_raised, data_dir, scenario, entry, crop_calendar, crop_sequence, start_date,
                    n_duplications, climate_df, fym_mean, target_crop >>

\* create_fym_sequence(crop_sequence, fym_mean, target_crop)
CreateFymSequence ==
    /\ entry = "sequence"
    /\ calls = << >>
    /\ \E mean \in FymMeans, target \in TargetCrops :
        /\ fym_mean' = mean
        /\ target_crop' = target
        /\ rets' = << create_fym_sequence(crop_sequence, mean, target) >>
    /\ calls' = << "create_fym_sequence" >>
    /\ stdout' = << >>
    /\ UNCHANGED << scan, iteration, invocations, sweep_raised, data_dir, scenario, entry, crop_calendar, crop_sequence, series, start_date,
                    n_duplications, climate_df >>

\* build_climate_sequence_from_calendar(crop_calendar, climate_df), alone or
\* after crop_calendar_to_sequence(crop_calendar) as CreateRothCDataIn calls
\* them
BuildClimateSequence ==
    /\ entry = "calendar"
    /\ \/ calls = << >>
       \/ calls = << "crop_calendar_to_sequence" >> /\ Returned
    /\ \E table \in ClimateTables :
        /\ climate_df' = table
        /\ \E out \in { build_climate_sequence_from_calendar(crop_calendar, table) } :
            /\ rets' = Append(rets, out.ret)
            /\ stdout' = out.warnings
    /\ calls' = Append(calls, "build_climate_sequence_from_calendar")
    /\ UNCHANGED << scan, iteration, invocations, sweep_raised, data_dir, scenario, entry, crop_calendar, crop_sequence, series, start_date,
                    n_duplications, fym_mean, target_crop >>

\* pet_sequence = calculate_pet_penman_monteith(temp_c, rh_percent,
\*                                              shortwave_rad)
CalculatePet ==
    /\ entry = "climate"
    /\ calls = << >>
    /\ rets' = << Return(calculate_pet_penman_monteith(climate_df.temp_c,
                      climate_df.rh_percent, climate_df.shortwave_rad)) >>
    /\ calls' = << "calculate_pet_penman_monteith" >>
    /\ stdout' = << >>
    /\ UNCHANGED << scan, iteration, invocations, sweep_raised, data_dir, scenario, entry,
                    crop_calendar, crop_sequence, series, start_date, n_duplications,
                    climate_df, fym_mean, target_crop >>

\* DataRothC = CreateRothCDataIn(data_path, warming_scenario, straw_scenario,
\*                               'baselinesubset', setzeroFYM)
CreateRothCDataInCall ==
    /\ entry = "data"
    /\ calls = << >>
    /\ \E w \in Range(warming_scenarios), s \in Range(straw_scenarios), z \in BOOLEAN :
        /\ scenario' = [warming |-> w, straw |-> s, management |-> "baselinesubset",
                        setzeroFYM |-> z]
        /\ \E out \in { CreateRothCDataIn(data_dir, w, s, "baselinesubset", z) } :
            /\ rets' = << out.ret >>
            /\ stdout' = out.warnings
            /\ data_dir' = out.files
    /\ calls' = << "CreateRothCDataIn" >>
    /\ UNCHANGED << scan, iteration, invocations, sweep_raised, entry, crop_calendar, crop_sequence, series, start_date,
                    n_duplications, climate_df, fym_mean, target_crop >>

-----------------------------------------------------------------------------
(* main.py, Cell 2: the scenario loop. A run of the loop body goes through
   "create" (CreateRothCDataIn), "save" (the Scenario column and
   DataRothCRun.csv) and "run" (the external model); "done" is the end of
   the loop and "raised" an exception that nothing caught. *)

\* warming_scenario + '_' + rotation_scenario + '_' + str(straw_scenario)
ScenarioTag(it) ==
    warming_scenarios[it.i] \o "_" \o rotation_scenarios[it.k] \o "_"
        \o ToString(straw_scenarios[it.j])

\* DataRothCIn['Scenario'] = tag
WithScenario(table, tag) ==
    [column \in DOMAIN table \cup { "Scenario" } |->
        IF column = "Scenario" THEN [k \in 1..Len(table.Crop) |-> tag]
        ELSE table[column]]

\* the file the external model reads, and the file it writes for the
\* scenario of the table it has read
RothCInputFile == "DataRothCRun.csv"
RothCOutputFile(tag) == "SOC_paramMC_summary_" \o tag \o ".csv"

\* the end of the loop body: the next combination in the sweep, the end for
\* a run of one combination
EndOfBody(it) ==
    IF entry = "sweep" THEN NextCombination(it) ELSE [it EXCEPT !.pc = "done"]

\* the CalledProcessError caught so far
Failures == Cardinality({ n \in 1..Len(invocations) :
                            invocations[n].outcome = "CalledProcessError" })

\* lines 388-389: DataRothCIn = CreateRothCDataIn(data_path, warming_scenario,
\* straw_scenario, rotation_scenario), outside any try
CreateInput(p) ==
    /\ sweep_raised = "none"
    /\ iteration[p].pc = "create"
    /\ LET it == iteration[p]
       IN  /\ scenario' = [warming |-> warming_scenarios[it.i],
                           straw |-> straw_scenarios[it.j],
                           management |-> rotation_scenarios[it.k],
                           setzeroFYM |-> FALSE]
           /\ \E out \in { CreateRothCDataIn(data_dir, warming_scenarios[it.i],
                              straw_scenarios[it.j], rotation_scenarios[it.k], FALSE) } :
                /\ stdout' = out.warnings
                /\ data_dir' = out.files
                /\ IF out.ret.raised = "none"
                   THEN /\ iteration' = [iteration EXCEPT ![p].pc = "save",
                                            ![p].DataRothCIn = << out.ret.value >>]
                        /\ UNCHANGED sweep_raised
                   ELSE /\ iteration' = [iteration EXCEPT ![p].pc = "raised"]
                        /\ sweep_raised' = out.ret.raised
    /\ UNCHANGED << scan, invocations, entry, crop_calendar, crop_sequence, series,
                    start_date, n_duplications, climate_df, fym_mean, target_crop,
                    calls, rets >>

\* lines 392-395: the Scenario column, then
\* DataRothCIn.to_csv(os.path.join(script_dir, 'data', 'DataRothCRun.csv'))
SaveInput(p) ==
    /\ sweep_raised = "none"
    /\ iteration[p].pc = "save"
    /\ LET tagged == WithScenario(iteration[p].DataRothCIn[1], ScenarioTag(iteration[p]))
       IN  /\ iteration' = [iteration EXCEPT ![p].pc = "run", ![p].DataRothCIn = << tagged >>]
           /\ data_dir' = WriteFile(data_dir, RothCInputFile, tagged)
    /\ UNCHANGED << scan, invocations, sweep_raised, scenario, stdout, entry, crop_calendar,
                    crop_sequence, series, start_date, n_duplications, climate_df,
                    fym_mean, target_crop, calls, rets >>

\* lines 397-411: subprocess.run([Rscript_exe, RscriptFileName], check=True)
\* inside "try ... except subprocess.CalledProcessError". The script reads
\* data/DataRothCRun.csv and saves the summary of the scenario it has read;
\* a script that fails raises CalledProcessError, an Rscript.exe that is not
\* at Rpath raises FileNotFoundError before any script runs
RunRothC(p) ==
    /\ sweep_raised = "none"
    /\ iteration[p].pc = "run"
    /\ \E outcome \in { "ok", "CalledProcessError", "FileNotFoundError" } :
        /\ outcome = "CalledProcessError" => Failures < MaxFailures
        /\ invocations' = IF outcome = "FileNotFoundError" THEN invocations
                           ELSE Append(invocations,
                                  [Scenario |-> iteration[p].DataRothCIn[1].Scenario[1],
                                   input |-> data_dir[RothCInputFile].Scenario[1],
                                   outcome |-> outcome])
        /\ data_dir' = IF outcome = "ok"
                       THEN WriteFile(data_dir,
                                RothCOutputFile(data_dir[RothCInputFile].Scenario[1]),
                                data_dir[RothCInputFile].Scenario)
                       ELSE data_dir
        /\ IF outcome = "FileNotFoundError"
           THEN /\ iteration' = [iteration EXCEPT ![p].pc = "raised"]
                /\ sweep_raised' = outcome
           ELSE /\ iteration' = [iteration EXCEPT ![p] = EndOfBody(iteration[p])]
                /\ UNCHANGED sweep_raised
    /\ UNCHANGED << scan, scenario, stdout, entry, crop_calendar, crop_sequence, series,
                    start_date, n_duplications, climate_df, fym_mean, target_crop,
                    calls, rets >>

\* the loop as main.py runs it
NextSweep ==
    \/ CreateInput(1)
    \/ SaveInput(1)
    \/ RunRothC(1)

\* two runs of the loop body at once
NextInterleaved ==
    \/ \E p \in DOMAIN iteration : CreateInput(p)
    \/ \E p \in DOMAIN iteration : SaveInput(p)
    \/ \E p \in DOMAIN iteration : RunRothC(p)

\* the calls on a calendar
NextCalendar ==
    \/ DuplicateCropCalendar
    \/ CropCalendarToSequence
    \/ CreateCropCalendar
    \/ BuildClimateSequence

\* the indices first..last in increasing order
Indices(first, last) == [k \in 1..(last - first + 1) |-> first + k - 1]

\* one iteration of the while loop of create_crop_calendar (lines 35-52):
\* the inner while moves i to the end of the period, then int(current_crop)
\* raises ValueError when the code is NaN
CalendarIteration ==
    /\ scan.fn = "create_crop_calendar"
    /\ scan.pc = "loop"
    /\ scan.i <= Len(scan.values)
    /\ \E after \in { PeriodEnd(scan.values, scan.i, scan.values[scan.i]) } :
        scan' = IF IsNa(scan.values[scan.i])
                THEN [scan EXCEPT !.i = after,
                                  !.visited = @ \o Indices(scan.i, after - 1),
                                  !.pc = "raised"]
                ELSE [scan EXCEPT !.i = after,
                                  !.visited = @ \o Indices(scan.i, after - 1)]
    /\ UNCHANGED << entry, crop_calendar, crop_sequence, series, start_date,
                    n_duplications, climate_df, fym_mean, target_crop, calls, rets,
                    stdout, data_dir, scenario, iteration, invocations, sweep_raised >>

\* one iteration of the while loop of create_fym_sequence (lines 29-39)
FymIteration ==
    /\ scan.fn = "create_fym_sequence"
    /\ scan.pc = "loop"
    /\ scan.i <= Len(scan.values)
    /\ \E after \in { TargetBlockEnd(scan.values, scan.i, scan.target) } :
        scan' = IF FloatEq(scan.values[scan.i], scan.target)
                THEN [scan EXCEPT !.i = after,
                                  !.visited = @ \o Indices(scan.i, after - 1)]
                ELSE [scan EXCEPT !.i = scan.i + 1]
    /\ UNCHANGED << entry, crop_calendar, crop_sequence, series, start_date,
                    n_duplications, climate_df, fym_mean, target_crop, calls, rets,
                    stdout, data_dir, scenario, iteration, invocations, sweep_raised >>

\* one iteration of the while loop of transform_agb_rothc (lines 14-40)
AgbIteration ==
    /\ scan.fn = "transform_agb_rothc"
    /\ scan.pc = "loop"
    /\ scan.i <= Len(scan.values)
    /\ \E j \in { BlockEnd(scan.values, scan.i, scan.i) } :
        scan' = IF IsNa(scan.values[scan.i]) \/ scan.values[scan.i] = 0
                THEN [scan EXCEPT !.i = scan.i + 1]
                ELSE [scan EXCEPT !.values = SpreadBlock(scan.values, scan.i, j),
                                  !.i = j + 1,
                                  !.visited = @ \o Indices(scan.i, j)]
    /\ UNCHANGED << entry, crop_calendar, crop_sequence, series, start_date,
                    n_duplications, climate_df, fym_mean, target_crop, calls, rets,
                    stdout, data_dir, scenario, iteration, invocations, sweep_raised >>

\* the test of the while loop fails: i < len(...) no longer holds
LoopExit ==
    /\ scan.pc = "loop"
    /\ scan.i > Len(scan.values)
    /\ scan' = [scan EXCEPT !.pc = "done"]
    /\ UNCHANGED << entry, crop_calendar, crop_sequence, series, start_date,
                    n_duplications, climate_df, fym_mean, target_crop, calls, rets,
                    stdout, data_dir, scenario, iteration, invocations, sweep_raised >>

\* the steps of a block-scanning loop
NextScan ==
    \/ CalendarIteration
    \/ FymIteration
    \/ AgbIteration
    \/ LoopExit

\* the calls on a crop sequence
NextSequence ==
    \/ CreateCropCalendar
    \/ CropCalendarToSequence
    \/ CreateFymSequence

\* the call on a carbon series
NextSeries == TransformAgbRothc

\* the six core operations
NextCore ==
    \/ DuplicateCropCalendar
    \/ CropCalendarToSequence
    \/ CreateCropCalendar
    \/ TransformAgbRothc
    \/ CreateFymSequence
    \/ BuildClimateSequence

\* the sequence of a duplicated calendar
NextDuplicate ==
    \/ DuplicateCropCalendar
    \/ SequenceOfDuplicate

\* the round trips between a sequence and a calendar
NextRoundTrip ==
    \/ CreateCropCalendar
    \/ CropCalendarToSequence

Next == NextCalendar \/ NextSequence \/ NextSeries \/ CreateRothCDataInCall

Spec == Init /\ [][Next]_vars

SpecCalendar == InitCalendar /\ [][NextCalendar]_vars

SpecSequence == InitSequence /\ [][NextSequence]_vars

SpecSeries == InitSeries /\ [][NextSeries]_vars

SpecLongSequence == InitLongSequence /\ [][CreateCropCalendar]_vars

SpecDataIn == InitDataIn /\ [][CreateRothCDataInCall]_vars

SpecDateCells == InitDateCells /\ [][CropCalendarToSequence]_vars

SpecCore == (InitShortCalendar \/ InitShortSequence \/ InitSeries) /\ [][NextCore]_vars

SpecDuplicate == InitCalendarOfMarch /\ [][NextDuplicate]_vars

SpecPet == InitPet /\ [][CalculatePet]_vars

\* a loop that can take a step takes it: the code runs on
SpecScan == InitScan /\ [][NextScan]_vars /\ WF_vars(NextScan)

SpecSweep == InitSweep /\ [][NextSweep]_vars

SpecInterleaved == InitInterleaved /\ [][NextInterleaved]_vars

SpecRoundTrip == (InitCalendar \/ InitSequence) /\ [][NextRoundTrip]_vars

-----------------------------------------------------------------------------
(* Vocabulary of the properties *)

\* the month a date string names, counted from year 0 (chronological order)
MonthIndex(s) == ParseYM(s).year * 12 + ParseYM(s).month - 1

Min(S) == CHOOSE x \in S : \A y \in S : x <= y

\* the rows of cal whose period contains month t
Containing(cal, t) ==
    { r \in 1..Len(cal) : MonthIndex(cal[r].Start_Date) <= t
                          /\ t <= MonthIndex(cal[r].End_Date) }

FirstStart(cal) == MonthIndex(cal[1].Start_Date)
LastEnd(cal) == MonthIndex(cal[Len(cal)].End_Date)

\* every period has start <= end and starts one month after the previous
\* one ends
Contiguous(cal) ==
    /\ \A r \in 1..Len(cal) : MonthIndex(cal[r].Start_Date) <= MonthIndex(cal[r].End_Date)
    /\ \A r \in 1..(Len(cal) - 1) :
          MonthIndex(cal[r + 1].Start_Date) = MonthIndex(cal[r].End_Date) + 1

-----------------------------------------------------------------------------
\* out[k], the code of the k-th month from month first on, is the code of
\* the first row of cal whose period contains that month, if any does
FirstMatchAsClaimed(cal, first, out) ==
    \A k \in 1..Len(out) :
        LET rows == Containing(cal, first + k - 1)
        IN  rows # {} => out[k] = cal[Min(rows)].Crop

(* C1: crop_calendar_to_sequence returns one crop code per month from the   *)
(* first row's Start_Date through the last row's End_Date inclusive, in      *)
(* month order; its length is 12*(end_year - start_year) + (end_month -      *)
(* start_month) + 1 (for a span that is not reversed); every month that at   *)
(* least one period contains gets the code of the first row, in row order,   *)
(* whose period contains it, also when periods overlap.                      *)
C1_SequenceFirstMatch ==
    calls = << "crop_calendar_to_sequence" >> =>
        /\ rets[1].raised = "none"
        /\ Len(rets[1].value)
              = Cardinality(FirstStart(crop_calendar)..LastEnd(crop_calendar))
        /\ LastEnd(crop_calendar) >= FirstStart(crop_calendar) - 1 =>
              LET start == ParseYM(crop_calendar[1].Start_Date)
                  end == ParseYM(crop_calendar[Len(crop_calendar)].End_Date)
              IN  Len(rets[1].value)
                      = 12 * (end.year - start.year) + (end.month - start.month) + 1
        /\ FirstMatchAsClaimed(crop_calendar, FirstStart(crop_calendar), rets[1].value)

\* a month of the span lies in two periods with different crops
C1_Witness ==
    /\ calls = << "crop_calendar_to_sequence" >>
    /\ \E k \in 1..Len(rets[1].value) :
          LET rows == Containing(crop_calendar, FirstStart(crop_calendar) + k - 1)
          IN  \E r1, r2 \in rows : crop_calendar[r1].Crop # crop_calendar[r2].Crop

-----------------------------------------------------------------------------
(* C2: round trip.  For every non-empty sequence of integer crop codes and   *)
(* every start date, crop_calendar_to_sequence(create_crop_calendar(seq,     *)
(* names, d)) is seq, in length and element by element; and for a calendar   *)
(* cal, crop_calendar_to_sequence(create_crop_calendar(                      *)
(* crop_calendar_to_sequence(cal), names, start of cal)) is                  *)
(* crop_calendar_to_sequence(cal).                                           *)
C2_RoundTrip ==
    /\ (calls = << "create_crop_calendar", "crop_calendar_to_sequence" >>
        /\ Len(crop_sequence) > 0) =>
            /\ rets[2].raised = "none"
            /\ rets[2].value = crop_sequence
            /\ stdout = << >>
    /\ (calls = << "crop_calendar_to_sequence", "create_crop_calendar",
                   "crop_calendar_to_sequence" >>
        /\ Contiguous(crop_calendar)) =>
            /\ rets[3].raised = "none"
            /\ rets[3].value = rets[1].value

\* a sequence of three periods or more that crosses a year end went through
\* both conversions, and so did a contiguous calendar of two periods
C2_Witness ==
    \/ /\ calls = << "create_crop_calendar", "crop_calendar_to_sequence" >>
       /\ Len(rets[1].value) >= 3
       /\ start_date.month = 11
       /\ Len(crop_sequence) >= 4
    \/ /\ calls = << "crop_calendar_to_sequence", "create_crop_calendar",
                     "crop_calendar_to_sequence" >>
       /\ Contiguous(crop_calendar)
       /\ Len(crop_calendar) >= 2

-----------------------------------------------------------------------------
(* Vocabulary of the carbon series *)

\* [i, j] is a maximal run of identical non-zero values of ser
IsRun(ser, i, j) ==
    /\ i <= j
    /\ ser[i] # 0 /\ ser[i] # NaN
    /\ \A k \in i..j : ser[k] = ser[i]
    /\ i = 1 \/ ser[i - 1] # ser[i]
    /\ j = Len(ser) \/ ser[j + 1] # ser[i]

MaximalRuns(ser) ==
    { run \in (1..Len(ser)) \X (1..Len(ser)) : IsRun(ser, run[1], run[2]) }

\* no event touches the run [i, j]
IsIsolated(ser, i, j) ==
    /\ i = 1 \/ ser[i - 1] \in {0, NaN}
    /\ j = Len(ser) \/ ser[j + 1] \in {0, NaN}

RECURSIVE SumOver(_, _, _)
SumOver(out, i, j) == IF i > j THEN 0 ELSE out[i] + SumOver(out, i + 1, j)

-----------------------------------------------------------------------------
(* C3: for every maximal run [i, j] of identical non-zero values V of the   *)
(* input, transform_agb_rothc writes V/2 at month j, V/6 at each month of    *)
(* max(i, j-3) .. j-1, and 0 at the months i .. j-4 of the run.              *)
C3_RunAllocation ==
    calls = << "transform_agb_rothc" >> =>
        \A run \in MaximalRuns(series) :
            LET i == run[1]
                j == run[2]
                V == series[i]
                out == rets[1].value
            IN  /\ rets[1].raised = "none"
                /\ 2 * out[j] = V
                /\ \A k \in Max(i, j - 3)..(j - 1) : 6 * out[k] = V
                /\ \A k \in i..(j - 4) : out[k] = 0

\* a run of five months or more that touches a run of another value, and a
\* run shorter than four months
C3_Witness ==
    /\ calls = << "transform_agb_rothc" >>
    /\ \E r1, r2, r3 \in MaximalRuns(series) :
          /\ r1[2] - r1[1] >= 4
          /\ r2[1] = r1[2] + 1
          /\ r3[2] - r3[1] < 3

-----------------------------------------------------------------------------
(* C4: conservation.  Over an isolated run of value V (a multiple of 6) of  *)
(* k months, the outputs of transform_agb_rothc sum to V when k >= 4, to     *)
(* V/2 for k = 1, to 2V/3 for k = 2 and to 5V/6 for k = 3, which is less     *)
(* than V.                                                                   *)
C4_Conservation ==
    calls = << "transform_agb_rothc" >> =>
        \A run \in MaximalRuns(series) :
            IsIsolated(series, run[1], run[2]) =>
                LET k == run[2] - run[1] + 1
                    V == series[run[1]]
                    total == SumOver(rets[1].value, run[1], run[2])
                IN  /\ rets[1].raised = "none"
                    /\ k >= 4 => total = V
                    /\ k = 1 => 2 * total = V
                    /\ k = 2 => 3 * total = 2 * V
                    /\ k = 3 => 6 * total = 5 * V
                    /\ k < 4 => total < V

\* an isolated run of four months or more and an isolated run of fewer than
\* four months have been transformed
C4_Witness ==
    /\ calls = << "transform_agb_rothc" >>
    /\ \E r1, r2 \in MaximalRuns(series) :
          /\ IsIsolated(series, r1[1], r1[2])
          /\ IsIsolated(series, r2[1], r2[2])
          /\ r1[2] - r1[1] + 1 >= 4
          /\ r2[2] - r2[1] + 1 < 4

-----------------------------------------------------------------------------
(* C5: transform_agb_rothc returns a result for every input sequence, one   *)
(* without any event and the empty one included: the output has the input's  *)
(* length and is 0 at every month whose input is zero or missing.            *)
C5_AlwaysReturns ==
    calls = << "transform_agb_rothc" >> =>
        /\ rets[1].raised = "none"
        /\ Len(rets[1].value) = Len(series)
        /\ \A k \in 1..Len(series) :
              series[k] \in {0, NaN} => rets[1].value[k] = 0

-----------------------------------------------------------------------------
(* C6: create_fym_sequence numbers the maximal runs of months with           *)
(* crop == target_crop 1, 2, 3, ... from left to right; its result has the   *)
(* input's length, is fym_mean at the last month of every even-numbered run  *)
(* and 0 at every other month, so the first run gets no manure and the       *)
(* number of non-zero months is floor(number of runs / 2).                   *)

\* the maximal runs [i, j] of months of seq with the crop target
TargetRuns(seq, target) ==
    { run \in (1..Len(seq)) \X (1..Len(seq)) :
        /\ run[1] <= run[2]
        /\ \A k \in run[1]..run[2] : seq[k] = target
        /\ run[1] = 1 \/ seq[run[1] - 1] # target
        /\ run[2] = Len(seq) \/ seq[run[2] + 1] # target }

\* the number of a run, counted from 1 from the left
RunNumber(runs, run) == Cardinality({ r \in runs : r[1] <= run[1] })

C6_FymEvenRuns ==
    calls = << "create_fym_sequence" >> =>
        LET out == rets[1].value
            runs == TargetRuns(crop_sequence, target_crop)
        IN  /\ rets[1].raised = "none"
            /\ Len(out) = Len(crop_sequence)
            /\ \A k \in 1..Len(out) :
                  out[k] = IF \E run \in runs : run[2] = k /\ RunNumber(runs, run) % 2 = 0
                           THEN fym_mean ELSE 0
            /\ \A run \in runs :
                  RunNumber(runs, run) = 1 => \A k \in run[1]..run[2] : out[k] = 0
            /\ Cardinality({ k \in 1..Len(out) : out[k] # 0 }) = Cardinality(runs) \div 2
            /\ (crop_sequence = << 7, 7, 1, 7, 1, 7, 7, 7 >> /\ target_crop = 7) =>
                  out = << 0, 0, 0, fym_mean, 0, 0, 0, 0 >>

\* the manure sequence of [7,7,1,7,1,7,7,7] for the crop 7 has been made
C6_Witness ==
    /\ calls = << "create_fym_sequence" >>
    /\ crop_sequence = << 7, 7, 1, 7, 1, 7, 7, 7 >>
    /\ target_crop = 7
    /\ fym_mean # 0

-----------------------------------------------------------------------------
(* Vocabulary of the duplicated calendar *)

\* months of a cycle
CycleMonths == 12 * CycleYears

\* months from the first row's start through the last row's end
SpanMonths(cal) == LastEnd(cal) - FirstStart(cal) + 1

\* every period has start <= end and starts after the previous one ends
NoOverlap(cal) ==
    /\ \A r \in 1..Len(cal) : MonthIndex(cal[r].Start_Date) <= MonthIndex(cal[r].End_Date)
    /\ \A r \in 1..(Len(cal) - 1) :
          MonthIndex(cal[r + 1].Start_Date) > MonthIndex(cal[r].End_Date)

\* every row starts exactly one month after the row before ends, and the
\* rows are ordered by start
AdjacentAndOrdered(cal) ==
    \A r \in 1..(Len(cal) - 1) :
        /\ MonthIndex(cal[r + 1].Start_Date) = MonthIndex(cal[r].End_Date) + 1
        /\ MonthIndex(cal[r].Start_Date) <= MonthIndex(cal[r + 1].Start_Date)

-----------------------------------------------------------------------------
(* C7 as stated: for any input calendar and any n >= 0 the calendar          *)
(* returned by duplicate_crop_calendar is contiguous: for every adjacent     *)
(* pair the next period's start is exactly one month after the current       *)
(* period's end, and the periods are ordered by start date.                  *)
C7_AlwaysContiguous ==
    calls = << "duplicate_crop_calendar" >> => AdjacentAndOrdered(rets[1].value)

(* C7 as amended: for any input calendar and any n >= 0 the calendar         *)
(* returned has no forward gap (the next period's start is at most one       *)
(* month after the current period's end); it is contiguous and ordered by    *)
(* start when, in the input, every period has start <= end and starts after  *)
(* the previous one ends, and the input spans at most 96 months.             *)
C7_NoForwardGap ==
    calls = << "duplicate_crop_calendar" >> =>
        LET out == rets[1].value
        IN  /\ rets[1].raised = "none"
            /\ \A r \in 1..(Len(out) - 1) :
                  MonthIndex(out[r + 1].Start_Date) <= MonthIndex(out[r].End_Date) + 1
            /\ (NoOverlap(crop_calendar) /\ SpanMonths(crop_calendar) <= CycleMonths) =>
                  AdjacentAndOrdered(out)

\* a calendar without overlap that has a gap between two of its periods has
\* been duplicated at least once
C7_Witness ==
    /\ calls = << "duplicate_crop_calendar" >>
    /\ n_duplications >= 1
    /\ NoOverlap(crop_calendar)
    /\ SpanMonths(crop_calendar) <= CycleMonths
    /\ \E r \in 1..(Len(crop_calendar) - 1) :
          MonthIndex(crop_calendar[r + 1].Start_Date)
              > MonthIndex(crop_calendar[r].End_Date) + 1

-----------------------------------------------------------------------------
(* C8: duplicate_crop_calendar(cal, n) returns (n+1) * len(cal) periods;     *)
(* copy i (i = 0..n) repeats the crop codes of cal in the same order, every  *)
(* start shifted forward by 96*i months with the month of the year           *)
(* unchanged, every period labelled 'Rotation i+1' whatever its label in     *)
(* cal.                                                                      *)
C8_CopiesShifted ==
    calls = << "duplicate_crop_calendar" >> =>
        LET out == rets[1].value
            len == Len(crop_calendar)
        IN  /\ rets[1].raised = "none"
            /\ Len(out) = (n_duplications + 1) * len
            /\ \A i \in 0..n_duplications : \A r \in 1..len :
                  LET period == out[i * len + r]
                  IN  /\ period.Crop = crop_calendar[r].Crop
                      /\ MonthIndex(period.Start_Date)
                            = MonthIndex(crop_calendar[r].Start_Date) + 96 * i
                      /\ SplitMonth(period.Start_Date) = SplitMonth(crop_calendar[r].Start_Date)
                      /\ period.Rotation = RotationLabel(i + 1)

\* a calendar of two periods, none of them labelled 'Rotation 1', has been
\* duplicated twice
C8_Witness ==
    /\ calls = << "duplicate_crop_calendar" >>
    /\ n_duplications = 2
    /\ Len(crop_calendar) = 2
    /\ \A r \in 1..2 : crop_calendar[r].Rotation # RotationLabel(1)

-----------------------------------------------------------------------------
(* C9: for a base calendar that is sorted, contiguous, without overlap and   *)
(* spans at most 96 months, in duplicate_crop_calendar(cal, n) every period  *)
(* but the last ends one month before the next one starts, the copies start  *)
(* 96 months apart, and the last period ends 96*n months after the base's    *)
(* last end; [2004-03..2008-02] duplicated twice gives the starts 2004-03,   *)
(* 2012-03, 2020-03.                                                         *)
C9_ContiguousBase ==
    (/\ calls = << "duplicate_crop_calendar" >>
     /\ Contiguous(crop_calendar)
     /\ SpanMonths(crop_calendar) <= 96) =>
        LET out == rets[1].value
            len == Len(crop_calendar)
        IN  /\ \A r \in 1..(Len(out) - 1) :
                  MonthIndex(out[r].End_Date) = MonthIndex(out[r + 1].Start_Date) - 1
            /\ \A i \in 0..n_duplications :
                  MonthIndex(out[i * len + 1].Start_Date) = FirstStart(crop_calendar) + 96 * i
            /\ MonthIndex(out[Len(out)].End_Date) = LastEnd(crop_calendar) + 96 * n_duplications
            /\ (/\ len = 1
                /\ crop_calendar[1].Start_Date = FormatYM(2004, 3)
                /\ crop_calendar[1].End_Date = FormatYM(2008, 2)
                /\ n_duplications = 2) =>
                  /\ [r \in 1..3 |-> out[r].Start_Date]
                        = << FormatYM(2004, 3), FormatYM(2012, 3), FormatYM(2020, 3) >>
                  /\ [r \in 1..3 |-> out[r].End_Date]
                        = << FormatYM(2012, 2), FormatYM(2020, 2), FormatYM(2024, 2) >>

\* the calendar [2004-03..2008-02] has been duplicated twice
C9_Witness ==
    /\ calls = << "duplicate_crop_calendar" >>
    /\ Len(crop_calendar) = 1
    /\ crop_calendar[1].Start_Date = FormatYM(2004, 3)
    /\ crop_calendar[1].End_Date = FormatYM(2008, 2)
    /\ n_duplications = 2

-----------------------------------------------------------------------------
(* C10: build_climate_sequence_from_calendar never fails on missing          *)
(* coverage: for each month of the calendar span it emits the value of the   *)
(* climate record of that (Year, Month), the first one in table order if     *)
(* there are several, and otherwise nan and exactly one warning for that     *)
(* month; the warnings are as many as the span months without a record.      *)
(* The span 2025-01..2025-03 with 2025-02 absent gives [v_jan, nan, v_mar]   *)
(* and one warning.                                                          *)

\* the rows of the table clim that are records of month t
RecordsOf(clim, t) ==
    { k \in 1..Len(clim) : clim[k].Year * 12 + clim[k].Month - 1 = t }

\* out and the warned months are what the claim says for the table clim and
\* the span that starts in month first: a month is warned once when it has
\* no record, and never when it has one
ClimateAsClaimed(clim, first, out, missing, warned) ==
    /\ \A k \in 1..Len(out) :
          LET records == RecordsOf(clim, first + k - 1)
          IN  out[k] = IF records # {} THEN clim[Min(records)].Value ELSE NaN
    /\ Len(warned) = Cardinality(missing)
    /\ { warned[w] : w \in 1..Len(warned) } = missing

C10_ClimateMissingWarned ==
    calls = << "build_climate_sequence_from_calendar" >> =>
        /\ rets[1].raised = "none"
        /\ Len(rets[1].value)
              = Cardinality(FirstStart(crop_calendar)..LastEnd(crop_calendar))
        /\ ClimateAsClaimed(climate_df, FirstStart(crop_calendar), rets[1].value,
              { t \in FirstStart(crop_calendar)..LastEnd(crop_calendar) :
                    RecordsOf(climate_df, t) = {} },
              [w \in 1..Len(stdout) |-> MonthIndex(stdout[w])])
        /\ (/\ crop_calendar[1].Start_Date = FormatYM(2025, 1)
            /\ crop_calendar[Len(crop_calendar)].End_Date = FormatYM(2025, 3)
            /\ climate_df = TableSparse) =>
              /\ rets[1].value = << 11, NaN, 13 >>
              /\ stdout = << FormatYM(2025, 2) >>

\* the climate sequence of a calendar that spans 2025-01..2025-03 has been
\* built from a table without 2025-02
C10_Witness ==
    /\ calls = << "build_climate_sequence_from_calendar" >>
    /\ crop_calendar[1].Start_Date = FormatYM(2025, 1)
    /\ crop_calendar[Len(crop_calendar)].End_Date = FormatYM(2025, 3)
    /\ climate_df = TableSparse
    /\ Len(stdout) = 1

-----------------------------------------------------------------------------
\* index k of crops and of values is the month k - 1 months after month
\* first: crops[k] is the code of the first row of cal containing it (bare
\* soil when none does), values[k] the value of the first record of clim for
\* it (nan when none is)
AlignedAsClaimed(cal, clim, first, crops, values) ==
    /\ \A k \in 1..Len(crops) :
          LET rows == Containing(cal, first + k - 1)
          IN  crops[k] = IF rows # {} THEN cal[Min(rows)].Crop ELSE BareSoil
    /\ \A k \in 1..Len(values) :
          LET records == RecordsOf(clim, first + k - 1)
          IN  values[k] = IF records # {} THEN clim[Min(records)].Value ELSE NaN

(* C11: over the same non-empty calendar, sorted or not, with or without
   gaps or overlaps, and for every climate table,
   build_climate_sequence_from_calendar returns a sequence of the length of
   crop_calendar_to_sequence's, and index t of both is the month t months
   after the first row's start: the crop at t is that of the first row
   containing that month (bare soil when none does) and the climate value at
   t is that of the table's first record of that month (nan when none is) *)
C11_ClimateAlignedWithCrops ==
    (/\ calls = << "crop_calendar_to_sequence", "build_climate_sequence_from_calendar" >>
     /\ Len(crop_calendar) > 0)
    => /\ rets[1].raised = "none"
       /\ rets[2].raised = "none"
       /\ Len(rets[2].value) = Len(rets[1].value)
       /\ AlignedAsClaimed(crop_calendar, climate_df, FirstStart(crop_calendar),
                           rets[1].value, rets[2].value)

\* both were called on an unsorted calendar whose periods overlap, the crop
\* changes along the sequence and the table knows some months and not others
C11_Witness ==
    /\ calls = << "crop_calendar_to_sequence", "build_climate_sequence_from_calendar" >>
    /\ Len(crop_calendar) > 1
    /\ Len(rets[1].value) > 1
    /\ Len(rets[2].value) = Len(rets[1].value)
    /\ \E t \in 1..Len(rets[1].value) :
         Cardinality(Containing(crop_calendar, FirstStart(crop_calendar) + t - 1)) > 1
    /\ \E r \in 2..Len(crop_calendar) :
         MonthIndex(crop_calendar[r].Start_Date) < MonthIndex(crop_calendar[r - 1].Start_Date)
    /\ \E t, u \in 1..Len(rets[1].value) : rets[1].value[t] # rets[1].value[u]
    /\ \E t, u \in 1..Len(rets[2].value) : rets[2].value[t] # NaN /\ rets[2].value[u] = NaN

-----------------------------------------------------------------------------
\* out and the warned months are what the claim says for the span that
\* starts in month first: a month no row of cal contains has the bare-soil
\* code and is warned exactly once, a month some row contains is not warned
GapsAsClaimed(cal, first, out, warned) ==
    \A k \in 1..Len(out) :
        LET t == first + k - 1
            warnings == { w \in 1..Len(warned) : warned[w] = t }
        IN  IF Containing(cal, t) = {}
            THEN out[k] = BareSoil /\ Cardinality(warnings) = 1
            ELSE warnings = {}

(* C12: crop_calendar_to_sequence does not fail on a coverage gap: it
   returns; every month of the span that no period contains has the
   bare-soil code 1 and is warned exactly once; a month some period contains
   is not warned; nothing else is warned; and the length is the number of
   months of the span, gaps included *)
C12_GapsWarnedNotFatal ==
    calls = << "crop_calendar_to_sequence" >> =>
        /\ rets[1].raised = "none"
        /\ Len(rets[1].value)
              = Cardinality(FirstStart(crop_calendar)..LastEnd(crop_calendar))
        /\ GapsAsClaimed(crop_calendar, FirstStart(crop_calendar), rets[1].value,
                         [w \in 1..Len(stdout) |-> MonthIndex(stdout[w])])
        /\ \A w \in 1..Len(stdout) :
              MonthIndex(stdout[w]) \in FirstStart(crop_calendar)..LastEnd(crop_calendar)

\* the sequence of a calendar has been built whose span holds a month that
\* no period contains and a month of a bare-soil period
C12_Witness ==
    /\ calls = << "crop_calendar_to_sequence" >>
    /\ Len(stdout) > 0
    /\ \E k \in 1..Len(rets[1].value) :
          LET rows == Containing(crop_calendar, FirstStart(crop_calendar) + k - 1)
          IN  rows # {} /\ crop_calendar[Min(rows)].Crop = BareSoil
    /\ \E k \in 1..Len(rets[1].value) :
          Containing(crop_calendar, FirstStart(crop_calendar) + k - 1) = {}

-----------------------------------------------------------------------------
\* the maximal blocks [i, j] of equal codes of seq
CodeBlocks(seq) ==
    { b \in (1..Len(seq)) \X (1..Len(seq)) :
        /\ b[1] <= b[2]
        /\ \A k \in b[1]..b[2] : seq[k] = seq[b[1]]
        /\ b[1] = 1 \/ seq[b[1] - 1] # seq[b[1]]
        /\ b[2] = Len(seq) \/ seq[b[2] + 1] # seq[b[1]] }

\* "YYYY-MM" of the month i - 1 months after the anchor (i counted from 1)
MonthString(anchor, i) ==
    LET d == DateOfMonth(MonthOfDate(anchor) + i - 1)
    IN  FormatYM(d.year, d.month)

\* cal is the run-length encoding of seq anchored at anchor
RunLengthEncoded(cal, seq, anchor) ==
    LET blocks == CodeBlocks(seq)
    IN  /\ Len(cal) = Cardinality(blocks)
        /\ \A b \in blocks :
              LET r == Cardinality({ c \in blocks : c[1] <= b[1] })
              IN  /\ cal[r].Crop = seq[b[1]]
                  /\ cal[r].Start_Date = MonthString(anchor, b[1])
                  /\ cal[r].End_Date = MonthString(anchor, b[2])

(* C13: create_crop_calendar run-length-encodes the sequence: the calendar
   has one period per maximal contiguous block of equal crop codes, in
   order, whose Start_Date and End_Date are the months of the block's first
   and last index, index 0 being start_date's month and index i the month i
   months later, the year rolling over after December. (A sequence without
   any month has no block; the call then raises KeyError.) *)
C13_RunLengthEncoding ==
    calls = << "create_crop_calendar" >> =>
        IF Len(crop_sequence) = 0
        THEN rets[1].raised = "KeyError"
        ELSE /\ rets[1].raised = "none"
             /\ RunLengthEncoded(rets[1].value, crop_sequence, start_date)

\* a sequence anchored in November with three blocks or more, one of them
\* longer than a month, that runs into the next year has been encoded
C13_Witness ==
    /\ calls = << "create_crop_calendar" >>
    /\ start_date.month = 11
    /\ Len(crop_sequence) >= 5
    /\ Cardinality(CodeBlocks(crop_sequence)) >= 3
    /\ \E b \in CodeBlocks(crop_sequence) : b[2] > b[1] /\ b[1] <= 2 /\ b[2] >= 3
    /\ Len(rets[1].value) >= 3

-----------------------------------------------------------------------------
\* the months elapsed between the anchor and the start of a period
Elapsed(anchor, period) == MonthIndex(period.Start_Date) - MonthOfDate(anchor)

\* months of a rotation bucket
BucketMonths == 4 * 12

(* C14: create_crop_calendar labels each period by the time elapsed between
   start_date and the period's start month, in buckets of 4 years:
   'Rotation k' when the elapsed time is in [48(k-1), 48k) months, k = 1..4,
   and 'Rotation 5' for every period starting 192 months or more after
   start_date *)
C14_RotationByElapsedTime ==
    (calls = << "create_crop_calendar" >> /\ Returned) =>
        \A r \in 1..Len(rets[1].value) :
            LET elapsed == Elapsed(start_date, rets[1].value[r])
            IN  rets[1].value[r].Rotation
                  = RotationLabel(IF elapsed >= 4 * BucketMonths THEN 5
                                  ELSE (elapsed \div BucketMonths) + 1)

-----------------------------------------------------------------------------
(* Vocabulary of the table of CreateRothCDataIn *)

\* the table the last call returned, and the files it read
ReturnedTable == rets[1].value
FileOf(variable) == data_dir[ClimateFileName(variable, scenario.warming)]

\* the value of the first record of a climate table for month t, nan when
\* the table has none
RecordValue(clim, t) ==
    LET records == RecordsOf(clim, t)
    IN  IF records # {} THEN clim[Min(records)].Value ELSE NaN

\* the carbon input of a crop code in the yield table built for the straw
\* scenario of the call
CarbonOfCode(code) ==
    CinBolOfCode(create_yield_table(Harvested,
                    SetStrawCoefficient(BolinderTable, scenario.straw)), code)

\* row k of every column of table is month first + k - 1 of the calendar cal
RowsAreMonths(table, cal, first, temp, prec, hum, rad) ==
    \A k \in 1..Len(table.Crop) :
        LET t == first + k - 1
            rows == Containing(cal, t)
        IN  /\ table.Crop[k] = IF rows # {} THEN cal[Min(rows)].Crop ELSE BareSoil
            /\ table.T[k] = RecordValue(temp, t)
            /\ table.P[k] = RecordValue(prec, t)
            /\ table.Evap[k].temp_c = RecordValue(temp, t)
            /\ table.Evap[k].rh_percent = RecordValue(hum, t)
            /\ table.Evap[k].shortwave_rad = RecordValue(rad, t)
            /\ table.SoilCover[k] \in { SoilCoverBare, SoilCoverCropped }
            /\ table.SoilCover[k] = SoilCoverBare <=> table.Crop[k] = BareSoil
            /\ table.FYM[k] \in { 0, FYM_mean_per_rot }
            /\ table.FYM[k] # 0 =>
                  /\ table.Crop[k] = 7
                  /\ k = Len(table.Crop) \/ table.Crop[k + 1] # 7
            /\ table.AGB[k] # NaN
            /\ table.AGB[k] # 0 =>
                  LET V == CarbonOfCode(table.Crop[k])
                  IN  V # NaN /\ table.AGB[k] \in { V \div 2, V \div 6 }

(* C15: whenever CreateRothCDataIn completes for a calendar, the seven
   columns T, Evap, P, FYM, AGB, SoilCover and Crop of its table all have
   the length N, the number of months from the calendar's first start to its
   last end, and row t of every column is the same calendar month, t months
   after the first start; so it is with setzeroFYM = True, where FYM is all
   zeros *)
C15_ColumnsAligned ==
    (calls = << "CreateRothCDataIn" >> /\ Returned) =>
        LET N == Cardinality(FirstStart(crop_calendar)..LastEnd(crop_calendar))
        IN  /\ \A column \in { ReturnedTable.T, ReturnedTable.P, ReturnedTable.FYM, ReturnedTable.AGB,
                                ReturnedTable.SoilCover, ReturnedTable.Crop } : Len(column) = N
            /\ Len(ReturnedTable.Evap) = N
            /\ RowsAreMonths(ReturnedTable, crop_calendar, FirstStart(crop_calendar),
                             FileOf("T"), FileOf("P"), FileOf("RH"), FileOf("Rn"))
            /\ scenario.setzeroFYM => \A k \in 1..N : ReturnedTable.FYM[k] = 0

\* a table has been built with setzeroFYM = True for a calendar of two wheat
\* periods apart, over five months or more that run into the next year
C15_Witness ==
    /\ calls = << "CreateRothCDataIn" >>
    /\ Returned
    /\ scenario.setzeroFYM
    /\ Len(ReturnedTable.Crop) >= 5
    /\ Len(crop_calendar) >= 2
    /\ \E k \in 2..(Len(ReturnedTable.Crop) - 1) :
          /\ ReturnedTable.Crop[k] # 7
          /\ ReturnedTable.Crop[k - 1] = 7
          /\ ReturnedTable.Crop[Len(ReturnedTable.Crop)] = 7
    /\ \E k \in 1..Len(ReturnedTable.T) : ReturnedTable.T[k] = NaN
    /\ \E k \in 1..Len(ReturnedTable.T) : ReturnedTable.T[k] # NaN

-----------------------------------------------------------------------------
(* C16: the soil-cover series of the table built by CreateRothCDataIn is
   1.0 at every month whose crop code is 1, the months that received the
   fallback code included, and 0.6 at every other month; the codes
   [1,1,7,7,7,7,1,1] give [1.0,1.0,0.6,0.6,0.6,0.6,1.0,1.0] (factors in
   tenths) *)
C16_SoilCoverOfCrop ==
    /\ SoilCover(<< 1, 1, 7, 7, 7, 7, 1, 1 >>) = << 10, 10, 6, 6, 6, 6, 10, 10 >>
    /\ (calls = << "CreateRothCDataIn" >> /\ Returned) =>
          /\ Len(ReturnedTable.SoilCover) = Len(ReturnedTable.Crop)
          /\ \A k \in 1..Len(ReturnedTable.Crop) :
                /\ ReturnedTable.SoilCover[k]
                     = IF ReturnedTable.Crop[k] = 1 THEN 10 ELSE 6
                /\ Containing(crop_calendar, FirstStart(crop_calendar) + k - 1) = {}
                     => ReturnedTable.SoilCover[k] = 10

\* a table has been built whose months hold a wheat month, a month of a
\* bare-soil period and a month that no period contains
C16_Witness ==
    /\ calls = << "CreateRothCDataIn" >>
    /\ Returned
    /\ \E k \in 1..Len(ReturnedTable.Crop) : ReturnedTable.Crop[k] = 7
    /\ \E k \in 1..Len(ReturnedTable.Crop) :
          LET rows == Containing(crop_calendar, FirstStart(crop_calendar) + k - 1)
          IN  rows # {} /\ crop_calendar[Min(rows)].Crop = 1
    /\ \E k \in 1..Len(ReturnedTable.Crop) :
          Containing(crop_calendar, FirstStart(crop_calendar) + k - 1) = {}

-----------------------------------------------------------------------------
\* the yield of a species in the yield table before the merge
YieldOf(species) ==
    LET rows == YieldRows(Harvested)
    IN  rows[CHOOSE r \in 1..Len(rows) : rows[r].species = species].yield

(* C20: for a straw-return scenario of p percent, CreateRothCDataIn sets
   the 'SS' coefficient of Winter Wheat to 1 - p/100 before building the
   yield table (1.0 for 0%, 0.5 for 50%, 0.0 for 100%; in percent: 100 - p),
   so that the carbon input of wheat in the table is computed with that
   share, and no other coefficient of any crop is changed *)
C20_StrawShareComplement ==
    calls = << "CreateRothCDataIn" >> =>
        LET before == data_dir["CoeffBolinder.csv"]
            after == SetStrawCoefficient(before, scenario.straw)
        IN  /\ Len(after) = Len(before)
            /\ \A r \in 1..Len(before) :
                  IF before[r].Crop = "Winter Wheat"
                  THEN after[r] = [before[r] EXCEPT !.SS = 100 - scenario.straw]
                  ELSE after[r] = before[r]
            /\ Returned =>
                  \A k \in 1..Len(ReturnedTable.Crop) :
                      (ReturnedTable.Crop[k] = 7 /\ ReturnedTable.AGB[k] # 0) =>
                          \E r \in 1..Len(before) :
                              /\ before[r].Crop = "Winter Wheat"
                              /\ LET V == CinBol(YieldOf("Winter Wheat"),
                                               [before[r] EXCEPT !.SS = 100 - scenario.straw])
                                 IN  ReturnedTable.AGB[k] \in { V \div 2, V \div 6 }

-----------------------------------------------------------------------------
\* s is a date "YYYY-MM": four digits, '-', and a month 01..12 of two digits
IsYearMonth(s) ==
    /\ Len(s) = 7
    /\ s[5] = Dash
    /\ \A k \in {1, 2, 3, 4, 6, 7} : s[k] \in 0..9
    /\ 10 * s[6] + s[7] \in 1..12

(* C17: a malformed calendar is fatal for crop_calendar_to_sequence: it
   raises, and returns no sequence, when the calendar is empty or when the
   Start_Date or the End_Date of any period, first, last or intermediate,
   is not a parseable YYYY-MM date; such a period is never silently treated
   as not matching *)
C17_MalformedIsFatal ==
    (/\ calls = << "crop_calendar_to_sequence" >>
     /\ \/ Len(crop_calendar) = 0
        \/ \E r \in 1..Len(crop_calendar) :
              \/ ~IsYearMonth(crop_calendar[r].Start_Date)
              \/ ~IsYearMonth(crop_calendar[r].End_Date))
    => rets[1].raised # "none"

\* C18: in the scenario sweep, a failure while processing one combination
\* (a fatal error while building its input table, or a failed invocation of
\* the external model) is caught for that combination: no exception leaves
\* the loop, which goes on with the remaining combinations.
C18_FailureCaughtPerCombination ==
    entry = "sweep" =>
        /\ sweep_raised = "none"
        /\ \A p \in DOMAIN iteration : iteration[p].pc # "raised"

\* C19: a run of the loop body writes only to outputs of its own combination,
\* so that under any interleaving of two runs the model input file a run has
\* written still holds its table when it invokes the external model, and
\* every invocation reads the table generated for its own combination.
C19_InvocationReadsOwnTable ==
    entry = "interleaved" =>
        /\ \A p \in DOMAIN iteration :
              iteration[p].pc = "run" =>
                  data_dir[RothCInputFile] = iteration[p].DataRothCIn[1]
        /\ \A n \in 1..Len(invocations) :
              invocations[n].input = invocations[n].Scenario


-----------------------------------------------------------------------------
(* C21: calculate_pet_penman_monteith returns one value per input month, each
   max(daily rate, 0) * 30 and so not negative, for all inputs: a relative
   humidity of 100 % and months whose climate inputs are missing included. *)
C21_PetNotNegative ==
    (entry = "climate" /\ calls # << >>) =>
        /\ Len(rets[1].value) = Len(climate_df.temp_c)
        /\ \A k \in 1..Len(rets[1].value) : PetFloored(rets[1].value[k]) = "nonnegative"

-----------------------------------------------------------------------------
\* a call of one of the six core operations
CoreCall ==
    /\ calls' # calls
    /\ Last(calls') \in { "duplicate_crop_calendar", "crop_calendar_to_sequence",
                          "create_crop_calendar", "transform_agb_rothc",
                          "create_fym_sequence", "build_climate_sequence_from_calendar" }

(* C22: the core operations are pure: duplicate_crop_calendar,
   crop_calendar_to_sequence, create_crop_calendar, transform_agb_rothc,
   create_fym_sequence and build_climate_sequence_from_calendar leave the
   calendar, the sequence, the series and the climate table passed to them
   as they were (the climate table is still the table whose values the call
   returned), and their result is a value added to what was returned so
   far. *)
C22_CoreOperationsPure ==
    [][CoreCall =>
        /\ crop_calendar' = crop_calendar
        /\ crop_sequence' = crop_sequence
        /\ series' = series
        /\ Last(calls') = "build_climate_sequence_from_calendar" =>
              Last(rets') = build_climate_sequence_from_calendar(crop_calendar,
                                                                climate_df').ret
        /\ Len(rets') = Len(rets) + 1
        /\ SubSeq(rets', 1, Len(rets)) = rets]_vars

\* a series with an event has been transformed, and a calendar duplicated
\* at least once
C22_Witness ==
    \/ /\ calls = << "transform_agb_rothc" >>
       /\ Returned
       /\ rets[1].value # series
       /\ Len(series) = MaxSeries
    \/ /\ calls = << "duplicate_crop_calendar" >>
       /\ n_duplications > 0
       /\ Len(crop_calendar) > 1

-----------------------------------------------------------------------------
\* the period of row r of cal has its harvest event in the column AGB: V/2 at
\* its last month and V/6 at each of the three months before
HarvestAtPeriodEnd(cal, r, AGB, V) ==
    LET last == MonthIndex(cal[r].End_Date) - FirstStart(cal) + 1
    IN  /\ AGB[last] = V \div 2
        /\ \A k \in (last - 3)..(last - 1) : AGB[k] = V \div 6

(* C23: in the table built by CreateRothCDataIn for a calendar whose periods
   follow one another, every period of at least 4 months whose crop has a
   carbon input V in the yield table yields one harvest event at its end:
   V/2 at the period's last month and V/6 at each of the three months
   before, also when the period before or after has the same crop or the
   same value. *)
C23_HarvestPerPeriod ==
    (calls = << "CreateRothCDataIn" >> /\ Returned /\ Contiguous(crop_calendar)) =>
        \A r \in 1..Len(crop_calendar) :
            ( /\ MonthIndex(crop_calendar[r].End_Date)
                    - MonthIndex(crop_calendar[r].Start_Date) + 1 >= 4
              /\ CarbonOfCode(crop_calendar[r].Crop) # NaN )
            => HarvestAtPeriodEnd(crop_calendar, r, ReturnedTable.AGB,
                                  CarbonOfCode(crop_calendar[r].Crop))

-----------------------------------------------------------------------------
\* row r of the calendar before is followed by a forward gap
ForwardGap(before, r) ==
    /\ r < Len(before)
    /\ MonthIndex(before[r + 1].Start_Date) > MonthIndex(before[r].End_Date) + 1

\* row r of out is row r of before, with its end moved to one month before
\* the next start if a forward gap follows it
GapClosedOnly(before, out, r) ==
    /\ out[r].Start_Date = before[r].Start_Date
    /\ out[r].Crop = before[r].Crop
    /\ out[r].Crop_Name = before[r].Crop_Name
    /\ out[r].Rotation = before[r].Rotation
    /\ IF ForwardGap(before, r)
       THEN LET next == ParseYM(before[r + 1].Start_Date)
            IN  /\ out[r].End_Date =
                      (IF next.month = 1 THEN FormatYM(next.year - 1, 12)
                       ELSE FormatYM(next.year, next.month - 1))
                /\ MonthIndex(out[r].End_Date) > MonthIndex(before[r].End_Date)
       ELSE out[r].End_Date = before[r].End_Date

(* C24: gap closure in duplicate_crop_calendar changes only the End_Date of a
   period that is followed by a forward gap (next start more than one month
   after its end), setting it to the next start minus one month (December of
   the previous year when the next start is January); it never changes a
   Start_Date or a crop code, never shortens a period, leaves every
   overlapping or adjacent pair as it is and never changes the last
   period's end. *)
C24_GapClosureFrame ==
    calls = << "duplicate_crop_calendar" >> =>
        \E before \in { ConcatCopies(crop_calendar, 0, n_duplications) } :
            /\ rets[1].raised = "none"
            /\ Len(rets[1].value) = Len(before)
            /\ \A r \in 1..Len(before) : GapClosedOnly(before, rets[1].value, r)
            /\ Len(before) > 0 =>
                  Last(rets[1].value).End_Date = Last(before).End_Date

\* a calendar of two overlapping periods that starts in January has been
\* duplicated: the copies are a forward gap apart, and the next start after
\* the gap is a January
C24_Witness ==
    /\ calls = << "duplicate_crop_calendar" >>
    /\ n_duplications >= 1
    /\ Len(crop_calendar) = 2
    /\ MonthIndex(crop_calendar[2].Start_Date) <= MonthIndex(crop_calendar[1].End_Date)
    /\ ForwardGap(ConcatCopies(crop_calendar, 0, n_duplications), 2)
    /\ SplitMonth(crop_calendar[1].Start_Date) = << 0, 1 >>
    /\ rets[1].value[2].End_Date # AddYears(crop_calendar[2].End_Date, 0)

-----------------------------------------------------------------------------
\* the number of combinations, and the n-th of them in loop order: warming
\* outermost, rotation innermost
Combinations == Len(warming_scenarios) * Len(straw_scenarios) * Len(rotation_scenarios)

CombinationAt(n) ==
    [i |-> ((n - 1) \div (Len(straw_scenarios) * Len(rotation_scenarios))) + 1,
     j |-> (((n - 1) \div Len(rotation_scenarios)) % Len(straw_scenarios)) + 1,
     k |-> ((n - 1) % Len(rotation_scenarios)) + 1]

\* the identifier warming_rotation_straw of the n-th combination
TagAt(n) ==
    warming_scenarios[CombinationAt(n).i] \o "_"
        \o rotation_scenarios[CombinationAt(n).k] \o "_"
        \o ToString(straw_scenarios[CombinationAt(n).j])

\* no step of the sweep has failed so far
NoStepFailed ==
    /\ sweep_raised = "none"
    /\ \A n \in 1..Len(invocations) : invocations[n].outcome = "ok"

(* C25: in the sequential sweep, as long as no step fails, the combinations
   are processed once each in loop order, warming outermost and rotation
   innermost: the n-th invocation of the external model is that of the n-th
   combination and reads the table tagged warming_rotation_straw of that
   combination; the run in progress is that of the next combination, whose
   table is generated and written to the input file before the model is
   invoked; and the sweep ends after 27 invocations, one per combination. *)
C25_SweepInLoopOrder ==
    (entry = "sweep" /\ NoStepFailed) =>
        /\ Combinations = 27
        /\ Len(invocations) <= Combinations
        /\ \A n \in 1..Len(invocations) :
              /\ invocations[n].Scenario = TagAt(n)
              /\ invocations[n].input = TagAt(n)
              /\ RothCOutputFile(TagAt(n)) \in DOMAIN data_dir
        /\ IF iteration[1].pc = "done" THEN Len(invocations) = Combinations
           ELSE /\ Len(invocations) < Combinations
                /\ CombinationAt(Len(invocations) + 1) =
                      [i |-> iteration[1].i, j |-> iteration[1].j, k |-> iteration[1].k]
        /\ iteration[1].pc = "run" =>
              /\ data_dir[RothCInputFile] = iteration[1].DataRothCIn[1]
              /\ data_dir[RothCInputFile].Scenario[1] = TagAt(Len(invocations) + 1)
              /\ data_dir[RothCInputFile].Crop =
                    data_dir[DataInFileName(scenario.management, scenario.warming,
                                            scenario.straw)].Crop

\* the sweep has ended without a failure
C25_Witness ==
    /\ entry = "sweep"
    /\ NoStepFailed
    /\ iteration[1].pc = "done"
    /\ Len(invocations) = Combinations

-----------------------------------------------------------------------------
(* C26: locality of transform_agb_rothc: at every month t the output is 0,
   V_t/2 or V_t/6, V_t being the input at t; the allocation of a run never
   changes a month outside the run, so that the output over a run is the
   output of the run taken alone, also next to a run of another value; and
   within a run only its last four months can be non-zero. *)
C26_AllocationLocal ==
    (calls = << "transform_agb_rothc" >> /\ Returned) =>
        /\ Len(rets[1].value) = Len(series)
        /\ \A t \in 1..Len(series) :
              \/ rets[1].value[t] = 0
              \/ /\ series[t] # NaN
                 /\ 2 * rets[1].value[t] = series[t] \/ 6 * rets[1].value[t] = series[t]
        /\ \A run \in MaximalRuns(series) :
              /\ SubSeq(rets[1].value, run[1], run[2])
                    = transform_agb_rothc(SubSeq(series, run[1], run[2])).value
              /\ \A k \in run[1]..(run[2] - 4) : rets[1].value[k] = 0

\* a run of one or two months between a run of another value and a missing
\* month has been allocated
C26_Witness ==
    /\ calls = << "transform_agb_rothc" >>
    /\ Returned
    /\ \E r1, r2 \in MaximalRuns(series) :
          /\ r2[1] = r1[2] + 1
          /\ r2[2] - r2[1] < 2
          /\ r1[2] - r1[1] >= 2
          /\ r2[2] < Len(series)
          /\ series[r2[2] + 1] = NaN

-----------------------------------------------------------------------------
\* the months of a period
PeriodLength(period) ==
    MonthIndex(period.End_Date) - MonthIndex(period.Start_Date) + 1

RECURSIVE SumOfLengths(_, _)
SumOfLengths(cal, r) ==
    IF r > Len(cal) THEN 0 ELSE PeriodLength(cal[r]) + SumOfLengths(cal, r + 1)

(* C27: for every non-empty sequence of integer crop codes the calendar
   returned by create_crop_calendar is well formed: the first period starts
   at start_date, each following period starts one month after the previous
   one ends, every period has start <= end, adjacent periods have different
   crop codes, and the period lengths sum to len(sequence). *)
C27_CalendarWellFormed ==
    (entry = "sequence" /\ Len(calls) >= 1 /\ calls[1] = "create_crop_calendar"
        /\ Len(crop_sequence) > 0) =>
        /\ rets[1].raised = "none"
        /\ Len(rets[1].value) >= 1
        /\ rets[1].value[1].Start_Date = FormatYM(start_date.year, start_date.month)
        /\ \A r \in 1..(Len(rets[1].value) - 1) :
              /\ MonthIndex(rets[1].value[r + 1].Start_Date)
                    = MonthIndex(rets[1].value[r].End_Date) + 1
              /\ rets[1].value[r + 1].Crop # rets[1].value[r].Crop
        /\ \A r \in 1..Len(rets[1].value) : PeriodLength(rets[1].value[r]) >= 1
        /\ SumOfLengths(rets[1].value, 1) = Len(crop_sequence)

\* a sequence of the longest length whose blocks cross the end of a year has
\* been turned into a calendar of three periods or more, the first and the
\* last of one month
C27_Witness ==
    /\ entry = "sequence"
    /\ calls = << "create_crop_calendar" >>
    /\ Len(crop_sequence) = MaxLen
    /\ start_date.month = 11
    /\ Len(rets[1].value) >= 3
    /\ PeriodLength(rets[1].value[1]) = 1
    /\ PeriodLength(Last(rets[1].value)) = 1
    /\ \E r \in 1..Len(rets[1].value) :
          SplitYear(rets[1].value[r].End_Date) # SplitYear(rets[1].value[r].Start_Date)

-----------------------------------------------------------------------------
\* the sequence of the duplicated calendar repeats base, the sequence of the
\* calendar itself, every 96 months, and carries the code of the calendar's
\* last period between two copies
PeriodicAsClaimed(cal, n, base, out) ==
    /\ Len(out) = CycleMonths * n + Len(base)
    /\ \A i \in 0..n : \A t \in 1..Len(base) : out[CycleMonths * i + t] = base[t]
    /\ \A i \in 0..(n - 1) : \A t \in (Len(base) + 1)..CycleMonths :
          out[CycleMonths * i + t] = cal[Len(cal)].Crop

(* C28: for a base calendar that is sorted, contiguous, without overlap and
   spans s <= 96 months, crop_calendar_to_sequence(duplicate_crop_calendar(
   cal, n)) has the length 96*n + s, gives no month the fallback code by
   default (no warning), and is periodic: its value at month 96*i + t is
   that of crop_calendar_to_sequence(cal) at month t for every copy i <= n
   and every t < s, and the months between two copies carry the crop code of
   the base's last period. *)
C28_DuplicateIsPeriodic ==
    ( /\ calls = << "duplicate_crop_calendar", "crop_calendar_to_sequence" >>
      /\ Contiguous(crop_calendar)
      /\ SpanMonths(crop_calendar) <= CycleMonths ) =>
        /\ rets[2].raised = "none"
        /\ stdout = << >>
        /\ Len(rets[2].value) = CycleMonths * n_duplications + SpanMonths(crop_calendar)
        /\ \E base \in { crop_calendar_to_sequence(crop_calendar).ret.value } :
              PeriodicAsClaimed(crop_calendar, n_duplications, base, rets[2].value)

\* a contiguous calendar of two periods with different crops that spans
\* less than 96 months, and another that spans 96 months, have been
\* duplicated twice or more and turned into a sequence
C28_Witness ==
    /\ calls = << "duplicate_crop_calendar", "crop_calendar_to_sequence" >>
    /\ Contiguous(crop_calendar)
    /\ n_duplications >= 2
    /\ Len(crop_calendar) >= 2
    /\ crop_calendar[1].Crop # crop_calendar[2].Crop
    /\ SpanMonths(crop_calendar) \in { 49, CycleMonths }


(* C29: the block-scanning loops of create_crop_calendar,
   create_fym_sequence and transform_agb_rothc terminate on every finite
   input sequence: every iteration of the outer loop that runs to its end
   strictly increases the scan index (and leaves it at most one past the
   last index), the block scan visits the indices in increasing order, each
   at most once, and the loop is eventually left. *)
C29_ScanTerminates ==
    /\ [][ ( /\ scan.pc = "loop"
             /\ scan.i <= Len(scan.values)
             /\ scan'.pc = "loop" ) =>
                /\ scan'.i > scan.i
                /\ scan'.i <= Len(scan.values) + 1 ]_vars
    /\ [](\A a, b \in 1..Len(scan.visited) :
            a < b => scan.visited[a] < scan.visited[b])
    /\ <>(scan.pc \in { "done", "raised" })

\* the loop of transform_agb_rothc has been left after it scanned a block
\* at the first index and a block up to the last index and stepped over an
\* index outside any block
C29_Witness ==
    /\ scan.pc = "done"
    /\ scan.fn = "transform_agb_rothc"
    /\ Len(scan.values) = MaxShort
    /\ Len(scan.visited) = 3
    /\ scan.visited[1] = 1
    /\ scan.visited[3] = MaxShort


\* the months of the span of cal by row position: from the first row's
\* Start_Date to the last row's End_Date, none when the end precedes the start
SpanOfRows(cal) == FirstStart(cal)..LastEnd(cal)

\* out holds one element per month of the span by row position and nothing
\* else, and the warnings name months of that span only
EmitsSpanOfRows(cal, out, warnings) ==
    \E span \in { SpanOfRows(cal) } :
        /\ out.raised = "none"
        /\ Len(out.value) = Cardinality(span)
        /\ \A k \in 1..Len(warnings) : MonthIndex(warnings[k]) \in span
        /\ span = {} => out.value = << >> /\ warnings = << >>

\* the months of the periods of cal, row by row
PeriodsOfRows(cal) ==
    [r \in 1..Len(cal) |-> [first |-> MonthIndex(cal[r].Start_Date),
                            last |-> MonthIndex(cal[r].End_Date)]]

(* C30: the span used by crop_calendar_to_sequence and
   build_climate_sequence_from_calendar is fixed by row position (first
   row's Start_Date, last row's End_Date), not by the earliest start and the
   latest end: the result holds one element per month of that span, the
   k-th being the code (or the climate value) of the k-th month of the span,
   so that months of periods outside the span are never emitted, and when
   the last row's end precedes the first row's start both return an empty
   sequence with no warning and no error. *)
C30_SpanByRowPosition ==
    /\ ( entry = "calendar" /\ calls = << "crop_calendar_to_sequence" >> ) =>
          /\ EmitsSpanOfRows(crop_calendar, rets[1], stdout)
          /\ \E periods \in { PeriodsOfRows(crop_calendar) } :
                \A k \in 1..Len(rets[1].value) :
                    \E rows \in { { r \in 1..Len(periods) :
                                      /\ periods[r].first <= periods[1].first + k - 1
                                      /\ periods[1].first + k - 1 <= periods[r].last } } :
                        rets[1].value[k] = IF rows = {} THEN BareSoil
                                           ELSE crop_calendar[Min(rows)].Crop
    /\ ( /\ entry = "calendar"
         /\ calls \in { << "build_climate_sequence_from_calendar" >>,
                         << "crop_calendar_to_sequence",
                            "build_climate_sequence_from_calendar" >> } ) =>
          /\ EmitsSpanOfRows(crop_calendar, Last(rets), stdout)
          /\ Len(calls) = 2 => Len(rets[2].value) = Len(rets[1].value)
          /\ \E first \in { FirstStart(crop_calendar) } :
              \A k \in 1..Len(Last(rets).value) :
                \E d \in { DateOfMonth(first + k - 1) } :
                    \E found \in { ClimateValue(climate_df, d.year, d.month) } :
                        Last(rets).value[k] = IF found = << >> THEN NaN
                                              ELSE found[1].Value

\* the last row of a calendar of two rows ends before the first row starts,
\* and both functions have returned an empty sequence for it, the second
\* one from a climate table that holds the month of the first row
C30_Witness ==
    /\ entry = "calendar"
    /\ calls = << "crop_calendar_to_sequence", "build_climate_sequence_from_calendar" >>
    /\ Len(crop_calendar) = 2
    /\ LastEnd(crop_calendar) < FirstStart(crop_calendar)
    /\ climate_df = TableFull
    /\ FirstStart(crop_calendar) = MonthOfDate([year |-> 2004, month |-> 3])
    /\ rets[1].value = << >>
    /\ rets[2].value = << >>
    /\ stdout = << >>

=============================================================================
